---- MODULE Spec2Model ----
(***************************************************************************)
(* Navigation core of the tank agent (agent_core): WorldModel,             *)
(* MotionDriver and the per-tick orchestration of SmartAgent.get_action.   *)
(*                                                                         *)
(* Numbers.  The code works in floats; the model works in integers:        *)
(*   evidence (safe, danger, blocked)  in units of 0.01                    *)
(*   TTLs                               in units of 0.5  (one decay = 2)   *)
(*   movement cost and block pressure   in units of 0.00001                *)
(*   positions, distances, speeds       in units of 0.01                   *)
(* Every constant of the code used here is a whole number of its unit.     *)
(*                                                                         *)
(* Dictionaries are functions whose DOMAIN is the set of keys present.     *)
(***************************************************************************)
EXTENDS Integers, Sequences, FiniteSets, TLC

VARIABLES
    world,    \* the WorldModel object (world_model.py:15-26)
    driver,   \* the MotionDriver object (driver.py:12-20)
    agent,    \* the SmartAgent fields the tick reads and writes (agent.py:40-47)
    last,     \* history: the last operation, its arguments and its result
    ghost     \* history: what the marks and decays so far entitle each entry to

vars == <<world, driver, agent, last, ghost>>

\* ------------------------------------------------------------------ helpers

Max(a, b) == IF a >= b THEN a ELSE b
Min(a, b) == IF a <= b THEN a ELSE b
Abs(a) == IF a >= 0 THEN a ELSE -a

\* dict.get(key, default)
Get(m, k, dflt) == IF k \in DOMAIN m THEN m[k] ELSE dflt

\* dict[key] = value
Put(m, k, v) == (k :> v) @@ m

EmptyMap == [x \in {} |-> 0]

\* y, with x worked out first: the steps of a handler are evaluated in the
\* order the program runs them
Then(x, y) == IF DOMAIN x = {} THEN y ELSE y

\* the value a local variable holds: Only({ body : v \in {value} }) is the
\* body with v standing for the value, worked out once
Only(S) == CHOOSE v \in S : TRUE

\* ------------------------------------------------------------- WorldModel

\* CellState() : safe, danger and blocked all 0.0
CellState == [safe |-> 0, danger |-> 0, blocked |-> 0]

\* WorldModel.__init__
WorldModel ==
    [ cell_states             |-> EmptyMap,
      visit_counts            |-> EmptyMap,
      dead_end_ttl            |-> EmptyMap,
      ally_occupancy_ttl      |-> EmptyMap,
      enemy_occupancy_ttl     |-> EmptyMap,
      powerup_cells           |-> {},
      preferred_powerup_cells |-> {},
      checkpoint_cells        |-> {},
      pothole_cells           |-> {} ]

\* grid_size = 10.0, in position units
grid_size == 1000

\* floor division, also for negative numerators
FloorDiv(a, b) == IF a >= 0 THEN a \div b ELSE -((-a + b - 1) \div b)

to_cell(x, y) == <<FloorDiv(x, grid_size), FloorDiv(y, grid_size)>>

to_world_center(cell) ==
    <<cell[1] * grid_size + grid_size \div 2, cell[2] * grid_size + grid_size \div 2>>

neighbors4(cell) ==
    << <<cell[1] + 1, cell[2]>>, <<cell[1] - 1, cell[2]>>,
       <<cell[1], cell[2] + 1>>, <<cell[1], cell[2] - 1>> >>

\* the world after get_state(cell): the entry exists
get_state(w, cell) ==
    IF cell \in DOMAIN w.cell_states THEN w
    ELSE [w EXCEPT !.cell_states = Put(@, cell, CellState)]

\* get_state(cell).<field> += amount, for the three fields at once
add_evidence(w, cell, dsafe, ddanger, dblocked) ==
    LET w1 == get_state(w, cell)
        s  == w1.cell_states[cell]
    IN [w1 EXCEPT !.cell_states[cell] =
            [safe |-> s.safe + dsafe, danger |-> s.danger + ddanger,
             blocked |-> s.blocked + dblocked]]

increment_visit(w, cell) ==
    [w EXCEPT !.visit_counts = Put(@, cell, Get(@, cell, 0) + 1)]

\* a decay that takes only 0.5 off every TTL
DecayMapByHalf(m) ==
    [c \in {x \in DOMAIN m : m[x] - 1 > 0} |-> m[c] - 1]

\* one TTL map after a decay: every TTL minus 1.0, kept only while > 0
DecayMap(m) ==
    [c \in {x \in DOMAIN m : m[x] - 2 > 0} |-> m[c] - 2]

decay_dead_ends(w) ==
    [w EXCEPT !.dead_end_ttl = DecayMap(@),
              !.ally_occupancy_ttl = DecayMap(@),
              !.enemy_occupancy_ttl = DecayMap(@)]

\* a mark that adds the new TTL to the stored one
MarkMapAdditive(m, cell, ttl) == Put(m, cell, Get(m, cell, 0) + ttl)

\* m[cell] = max(m.get(cell, 0.0), ttl)
MarkMap(m, cell, ttl) == Put(m, cell, Max(Get(m, cell, 0), ttl))

mark_dead_end(w, cell, ttl) == [w EXCEPT !.dead_end_ttl = MarkMap(@, cell, ttl)]

mark_ally_occupancy(w, cell, ttl) ==
    [w EXCEPT !.ally_occupancy_ttl = MarkMap(@, cell, ttl)]

mark_enemy_occupancy(w, cell, ttl) ==
    [w EXCEPT !.enemy_occupancy_ttl = MarkMap(@, cell, ttl)]

ally_occupancy_score(w, cell) == Get(w.ally_occupancy_ttl, cell, 0)

enemy_occupancy_score(w, cell) == Get(w.enemy_occupancy_ttl, cell, 0)

\* evidence rules that treat a pothole cell like any other cell
BlockedByEvidence_pothole_as_ordinary(w, cell) ==
    IF cell \notin DOMAIN w.cell_states THEN FALSE
    ELSE LET state == w.cell_states[cell] IN
         \/ state.blocked >= 100
         \/ (state.danger >= 400 /\ state.safe < 150)

\* the evidence rules of is_blocked_for_pathing, without the dead-end test
BlockedByEvidence(w, cell) ==
    IF cell \notin DOMAIN w.cell_states THEN FALSE
    ELSE LET state == w.cell_states[cell] IN
         IF cell \in w.pothole_cells
         THEN state.blocked >= 250 \/ (state.danger >= 900 /\ state.safe < 60)
         ELSE \/ state.blocked >= 100
              \/ (state.danger >= 400 /\ state.safe < 150)

\* a blocking test that lets a safe score of 1.5 or more override the dead end
is_blocked_for_pathing_evidence_first(w, cell) ==
    IF cell \in DOMAIN w.cell_states /\ w.cell_states[cell].safe >= 150
    THEN BlockedByEvidence(w, cell)
    ELSE cell \in DOMAIN w.dead_end_ttl \/ BlockedByEvidence(w, cell)

\* WorldModel.is_blocked_for_pathing: a dead end is blocked whatever the evidence
is_blocked_for_pathing(w, cell) ==
    IF cell \in DOMAIN w.dead_end_ttl THEN TRUE ELSE BlockedByEvidence(w, cell)

is_dangerous_cell(w, cell) ==
    IF cell \notin DOMAIN w.cell_states THEN FALSE
    ELSE w.cell_states[cell].danger >= 100

\* one neighbour's share of local_block_pressure, in cost units
NeighborPressure(w, neighbor) ==
    IF neighbor \in DOMAIN w.dead_end_ttl THEN 120000
    ELSE IF neighbor \notin DOMAIN w.cell_states THEN 0
    ELSE 450 * w.cell_states[neighbor].blocked + 250 * w.cell_states[neighbor].danger

local_block_pressure(w, cell) ==
    LET n == neighbors4(cell) IN
    NeighborPressure(w, n[1]) + NeighborPressure(w, n[2])
        + NeighborPressure(w, n[3]) + NeighborPressure(w, n[4])

\* movement_cost before the final max(0.35, base)
MovementBase(w, cell) ==
    LET state  == Get(w.cell_states, cell, CellState)
        visits == Get(w.visit_counts, cell, 0)
        b0 == 190000
        b1 == IF cell \in w.checkpoint_cells THEN (b0 * 75) \div 100 ELSE b0
        b2 == IF cell \in w.powerup_cells THEN (b1 * 92) \div 100 ELSE b1
        b3 == IF cell \in w.preferred_powerup_cells THEN (b2 * 50) \div 100 ELSE b2
        b4 == IF cell \in w.pothole_cells THEN b3 + 120000 ELSE b3
        b5 == IF cell \notin DOMAIN w.cell_states THEN b4 + 280000 ELSE b4
    IN b5 - 350 * Min(state.safe, 300)
          + 4800 * state.danger
          + 7200 * state.blocked
          + (8 * local_block_pressure(w, cell)) \div 10
          + 12000 * Min(visits, 12)
          + 325000 * ally_occupancy_score(w, cell)
          + 400000 * enemy_occupancy_score(w, cell)

\* the cost without the floor
movement_cost_unfloored(w, cell) == MovementBase(w, cell)

\* a cost that leaves the two occupancy terms out
movement_cost_without_occupancy(w, cell) ==
    Max(35000, MovementBase(w, cell) - 325000 * ally_occupancy_score(w, cell)
                                     - 400000 * enemy_occupancy_score(w, cell))

\* WorldModel.movement_cost: max(0.35, base)
movement_cost(w, cell) == Max(35000, MovementBase(w, cell))

\* ------------------------------------------------------------ MotionDriver

\* Python's None, and a value that is not None
None == <<>>
Some(v) == <<v>>

\* MotionDriver.__init__
MotionDriver ==
    [ path           |-> <<>>,
      last_position  |-> None,
      last_move_cmd  |-> 0,
      stuck_ticks    |-> 0,
      escape_ticks   |-> 0,
      escape_heading |-> None,
      unblock_ticks  |-> 0 ]

\* cos(a) * 9.0 and sin(a) * 9.0 rounded down to position units, for the angles
\* (heading + offset) % 360 with heading a multiple of 90 and offset in
\* {-28, 0, 28}.  Added to a whole number of position units and floor-divided
\* by the grid size, the rounded offset gives the same cell as the exact one.
\* Where the exact value is 0 up to float rounding the offset is 0: positions
\* here are never on a cell boundary.
Cos9(a) ==
    CASE a \in {0} -> 900
      [] a \in {180} -> -900
      [] a \in {28, 332} -> 794
      [] a \in {152, 208} -> -795
      [] a \in {62, 298} -> 422
      [] a \in {118, 242} -> -423
      [] a \in {90, 270} -> 0

Sin9(a) ==
    CASE a \in {90} -> 900
      [] a \in {270} -> -900
      [] a \in {62, 118} -> 794
      [] a \in {242, 298} -> -795
      [] a \in {28, 152} -> 422
      [] a \in {208, 332} -> -423
      [] a \in {0, 180} -> 0

\* the cell 9.0 ahead of (my_x, my_y) along heading + angle_offset
ProbeCell(my_x, my_y, heading, angle_offset) ==
    LET a == (heading + angle_offset) % 360
    IN to_cell(my_x + Cos9(a), my_y + Sin9(a))

ProbeOffsets == <<-28, 0, 28>>

\* driver.py:128-129 for one probe
MarkProbe(w, cell) == mark_dead_end(add_evidence(w, cell, 0, 0, 125), cell, 1120)

\* a trigger that probes straight ahead only
MarkProbesStraightOnly(w, my_x, my_y, heading) ==
    MarkProbe(w, ProbeCell(my_x, my_y, heading, 0))

\* driver.py:123-129, the three probes in order
MarkProbes(w, my_x, my_y, heading) ==
    LET w1 == MarkProbe(w, ProbeCell(my_x, my_y, heading, ProbeOffsets[1]))
        w2 == MarkProbe(w1, ProbeCell(my_x, my_y, heading, ProbeOffsets[2]))
    IN MarkProbe(w2, ProbeCell(my_x, my_y, heading, ProbeOffsets[3]))

\* euclidean_distance(x1, y1, x2, y2) < limit, compared on the squares
DistLess(x1, y1, x2, y2, limit) ==
    (x2 - x1) * (x2 - x1) + (y2 - y1) * (y2 - y1) < limit * limit

\* the test of driver.py:117 without its enemies_visible part
StuckQualifiesEnemiesOrNot(d, my_x, my_y, enemies_visible, blocking_tank_in_front) ==
    LET trying == d.last_move_cmd > (IF blocking_tank_in_front THEN 20 ELSE 40)
    IN /\ trying
       /\ DistLess(my_x, my_y, d.last_position[1], d.last_position[2], 15)

\* driver.py:113-117: trying and moved < 0.15 and not enemies_visible
StuckQualifies(d, my_x, my_y, enemies_visible, blocking_tank_in_front) ==
    LET trying == d.last_move_cmd > (IF blocking_tank_in_front THEN 20 ELSE 40)
    IN /\ trying
       /\ DistLess(my_x, my_y, d.last_position[1], d.last_position[2], 15)
       /\ ~enemies_visible

\* a counter that a moving tick leaves as it is
StuckCountNoDecrement(ticks, qualifies) ==
    IF qualifies THEN ticks + 1 ELSE ticks

\* a counter that a stuck tick raises by two
StuckCountDouble(ticks, qualifies) ==
    IF qualifies THEN ticks + 2 ELSE Max(0, ticks - 1)

\* driver.py:117-120
StuckCount(ticks, qualifies) ==
    IF qualifies THEN ticks + 1 ELSE Max(0, ticks - 1)

\* the driver after a triggered update_stuck (driver.py:130-132)
StuckReset(d, my_x, my_y) ==
    [d EXCEPT !.path = <<>>, !.stuck_ticks = 0, !.last_position = <<my_x, my_y>>]

\* MotionDriver.update_stuck: the driver and the world after the call, and
\* the value returned
update_stuck(d, w, my_x, my_y, enemies_visible, heading, blocking_tank_in_front) ==
    IF d.last_position = None
    THEN [ driver |-> [d EXCEPT !.last_position = <<my_x, my_y>>, !.stuck_ticks = 0],
           world |-> w, ret |-> FALSE ]
    ELSE LET q == StuckQualifies(d, my_x, my_y, enemies_visible, blocking_tank_in_front)
             ticks == StuckCount(d.stuck_ticks, q)
         IN IF ticks >= 10
            THEN [ driver |-> StuckReset(d, my_x, my_y),
                   world |-> MarkProbes(w, my_x, my_y, heading),
                   ret |-> TRUE ]
            ELSE [ driver |-> [d EXCEPT !.stuck_ticks = ticks,
                                        !.last_position = <<my_x, my_y>>],
                   world |-> w, ret |-> FALSE ]

\* the score of best_immediate_safe_neighbor for one cell, times 100
NeighborScore(w, cell) ==
    LET state == Get(w.cell_states, cell, CellState)
    IN 4 * state.safe - 8 * state.danger - 4 * state.blocked
         - 20 * Get(w.visit_counts, cell, 0)

\* one pass of the loop of best_immediate_safe_neighbor over neighbour i.
\* acc.best is None while best_score is still -1e9, which is below the score
\* of every cell whose evidence fits the model's integers.
SafeNeighborStep(acc, cell, allow_risky) ==
    IF ~allow_risky /\ is_blocked_for_pathing(acc.world, cell) THEN acc
    ELSE LET w1 == get_state(acc.world, cell)
             score == NeighborScore(w1, cell)
         IN IF acc.best = None \/ score > acc.best_score
            THEN [world |-> w1, best |-> Some(cell), best_score |-> score]
            ELSE [acc EXCEPT !.world = w1]

\* MotionDriver.best_immediate_safe_neighbor: the world after the call (the
\* scored neighbours now have entries) and the cell returned, or None
best_immediate_safe_neighbor(w, my_cell, allow_risky) ==
    LET n == neighbors4(my_cell)
    IN Only({ [world |-> a4.world, best |-> a4.best] :
              a4 \in { SafeNeighborStep(SafeNeighborStep(SafeNeighborStep(SafeNeighborStep(
                           [world |-> w, best |-> None, best_score |-> 0],
                           n[1], allow_risky), n[2], allow_risky),
                           n[3], allow_risky), n[4], allow_risky) } })

\* random.choice in start_escape
EscapeTurns == {120, 135, 150, 165, 180, -120, -135, -150, -165, -180}

\* start_escape drawing a new heading on every call
start_escape_always_new(d, my_heading, force_new, turn) ==
    [d EXCEPT !.escape_heading = Some((my_heading + turn) % 360),
              !.escape_ticks = Max(@, 45)]

\* MotionDriver.start_escape; turn is the draw of random.choice
start_escape(d, my_heading, force_new, turn) ==
    LET d1 == IF d.escape_heading = None \/ force_new
              THEN [d EXCEPT !.escape_heading = Some((my_heading + turn) % 360)]
              ELSE d
    IN [d1 EXCEPT !.escape_ticks = Max(@, 45)]

\* the count-down without the clearing of the heading
EscapeCountDownKeepsHeading(d) ==
    [d EXCEPT !.escape_ticks = Max(0, @ - 1)]

\* driver.py:166-168 and 178-180
EscapeCountDown(d) ==
    LET ticks == Max(0, d.escape_ticks - 1)
    IN [d EXCEPT !.escape_ticks = ticks,
                 !.escape_heading = IF ticks = 0 THEN None ELSE @]

\* MotionDriver.escape_drive: the driver and the world after the call, and
\* whether it called start_escape.  The (turn, speed) it returns is not part
\* of the state and is left out.
escape_drive(d, w, my_x, my_y, my_heading, turn) ==
    LET my_cell == to_cell(my_x, my_y)
    IN Only({ Only({ IF r2.best # None
                     THEN [driver |-> EscapeCountDown(d), world |-> r2.world,
                           started |-> FALSE]
                     ELSE [driver |-> EscapeCountDown(
                                          IF d.escape_heading = None
                                          THEN start_escape(d, my_heading, FALSE, turn)
                                          ELSE d),
                           world |-> r2.world,
                           started |-> d.escape_heading = None] :
                     r2 \in { IF r1.best = None
                              THEN best_immediate_safe_neighbor(r1.world, my_cell, TRUE)
                              ELSE r1 } }) :
              r1 \in { best_immediate_safe_neighbor(w, my_cell, FALSE) } })

\* MotionDriver.start_unblock
start_unblock(d) == [d EXCEPT !.unblock_ticks = 12]

\* MotionDriver.unblock_drive, its effect on the driver
unblock_drive(d) ==
    IF d.unblock_ticks <= 0 THEN d ELSE [d EXCEPT !.unblock_ticks = @ - 1]

\* MotionDriver.drive_path, its effect on the world: a dangerous next cell
\* makes it score the neighbours of the tank's cell
drive_path(d, w, my_x, my_y) ==
    IF d.path = <<>> THEN w
    ELSE IF is_dangerous_cell(w, d.path[1])
         THEN best_immediate_safe_neighbor(w, to_cell(my_x, my_y), FALSE).world
         ELSE w

\* ------------------------------------------------------------ AStarPlanner

\* AStarPlanner._heuristic, in cost units
_heuristic(a, b) == 100000 * (Abs(a[1] - b[1]) + Abs(a[2] - b[2]))

\* the order of the (f_score, cell) tuples on the heap
HeapLess(a, b) ==
    \/ a[1] < b[1]
    \/ a[1] = b[1] /\ a[2][1] < b[2][1]
    \/ a[1] = b[1] /\ a[2][1] = b[2][1] /\ a[2][2] < b[2][2]

\* the entry heapq.heappop returns
HeapTop(frontier) ==
    CHOOSE e \in frontier : \A o \in frontier : o = e \/ HeapLess(e, o)

\* the relaxation without the blocking test of planner.py:51
RelaxThroughBlocked(acc, w, current, neighbor, start, goal, radius) ==
    IF \/ Abs(neighbor[1] - start[1]) > radius
       \/ Abs(neighbor[2] - start[2]) > radius
    THEN acc
    ELSE Only({ IF neighbor \in DOMAIN acc.g_score /\ tentative_g >= acc.g_score[neighbor]
                THEN acc
                ELSE [ frontier  |-> acc.frontier
                                       \cup {<<tentative_g + _heuristic(neighbor, goal),
                                               neighbor>>},
                       came_from |-> Put(acc.came_from, neighbor, current),
                       g_score   |-> Put(acc.g_score, neighbor, tentative_g),
                       path      |-> None ] :
                tentative_g \in { acc.g_score[current] + movement_cost(w, neighbor) } })

\* the relaxation without the window test of planner.py:49
RelaxBeyondWindow(acc, w, current, neighbor, start, goal, radius) ==
    IF is_blocked_for_pathing(w, neighbor)
    THEN acc
    ELSE Only({ IF neighbor \in DOMAIN acc.g_score /\ tentative_g >= acc.g_score[neighbor]
                THEN acc
                ELSE [ frontier  |-> acc.frontier
                                       \cup {<<tentative_g + _heuristic(neighbor, goal),
                                               neighbor>>},
                       came_from |-> Put(acc.came_from, neighbor, current),
                       g_score   |-> Put(acc.g_score, neighbor, tentative_g),
                       path      |-> None ] :
                tentative_g \in { acc.g_score[current] + movement_cost(w, neighbor) } })

\* planner.py:50-62, one neighbour of the cell just popped
Relax(acc, w, current, neighbor, start, goal, radius) ==
    IF \/ Abs(neighbor[1] - start[1]) > radius
       \/ Abs(neighbor[2] - start[2]) > radius
       \/ is_blocked_for_pathing(w, neighbor)
    THEN acc
    ELSE Only({ IF neighbor \in DOMAIN acc.g_score /\ tentative_g >= acc.g_score[neighbor]
                THEN acc
                ELSE [ frontier  |-> acc.frontier
                                       \cup {<<tentative_g + _heuristic(neighbor, goal),
                                               neighbor>>},
                       came_from |-> Put(acc.came_from, neighbor, current),
                       g_score   |-> Put(acc.g_score, neighbor, tentative_g),
                       path      |-> None ] :
                tentative_g \in { acc.g_score[current] + movement_cost(w, neighbor) } })

\* planner.py:41-47
RECURSIVE PathBack(_, _)
PathBack(came_from, current) ==
    IF current \in DOMAIN came_from
    THEN Append(PathBack(came_from, came_from[current]), current)
    ELSE <<current>>

\* a search that answers the empty path for equal start and goal
SearchStartEmptyWhenSame(start, goal) ==
    [ frontier  |-> {<<0, start>>},
      came_from |-> EmptyMap,
      g_score   |-> Put(EmptyMap, start, 0),
      path      |-> IF start = goal THEN Some(<<>>) ELSE None ]

\* planner.py:23-36: the search before its first turn; equal start and goal
\* end it at once with the one-cell path
SearchStart(start, goal) ==
    [ frontier  |-> {<<0, start>>},
      came_from |-> EmptyMap,
      g_score   |-> Put(EmptyMap, start, 0),
      path      |-> IF start = goal THEN Some(<<start>>) ELSE None ]

\* planner.py:38-62, one turn of the search loop: pop the top entry and
\* either stop at the goal or relax its four neighbours.  acc.path is None
\* while the search runs.
AStarStep(acc, w, start, goal, radius) ==
    Only({ LET current == top[2]
               n       == neighbors4(current)
               a0      == [acc EXCEPT !.frontier = @ \ {top}]
           IN IF current = goal
              THEN [a0 EXCEPT !.path = Some(PathBack(acc.came_from, current))]
              ELSE Only({ Only({ Only({ Only({
                       IF a4.frontier = {} THEN [a4 EXCEPT !.path = Some(<<>>)] ELSE a4 :
                       a4 \in { Relax(a3, w, current, n[4], start, goal, radius) } }) :
                       a3 \in { Relax(a2, w, current, n[3], start, goal, radius) } }) :
                       a2 \in { Relax(a1, w, current, n[2], start, goal, radius) } }) :
                       a1 \in { Relax(a0, w, current, n[1], start, goal, radius) } }) :
           top \in { HeapTop(acc.frontier) } })

\* up to 4^level turns of the loop; a call on a search that has ended
\* returns it unchanged.  The turns are split in quarters to keep the
\* evaluation shallow.
RECURSIVE AStarLoop(_, _, _, _, _, _)
AStarLoop(acc, w, start, goal, radius, level) ==
    IF acc.path # None THEN acc
    ELSE IF level = 0 THEN AStarStep(acc, w, start, goal, radius)
    ELSE Only({ Only({ Only({ AStarLoop(a3, w, start, goal, radius, level - 1) :
                a3 \in { AStarLoop(a2, w, start, goal, radius, level - 1) } }) :
                a2 \in { AStarLoop(a1, w, start, goal, radius, level - 1) } }) :
                a1 \in { AStarLoop(acc, w, start, goal, radius, level - 1) } })

\* 4^SearchLevels turns are more than any search of the windows used here
\* can take
SearchLevels == 6

\* AStarPlanner.build_path: the path as a sequence of cells, <<>> for none.
\* Costs are summed exactly; the floating point sums of the code can order
\* two routes of equal exact cost either way.
build_path(w, start, goal, radius) ==
    AStarLoop(SearchStart(start, goal), w, start, goal, radius, SearchLevels).path[1]

\* ------------------------------------------------------------ GoalSelector

\* the score nearest_safe_cell gives a cell, in cost units
SafeCellScore(w, my_cell, cell) ==
    LET state == Get(w.cell_states, cell, CellState)
        dist  == Abs(cell[1] - my_cell[1]) + Abs(cell[2] - my_cell[2])
    IN 3000 * state.safe - 6000 * state.danger - 3500 * state.blocked
         - (8 * local_block_pressure(w, cell)) \div 10 + 22000 * dist

\* the cells of the scan square, in scan order: dx ascending, then dy
ScanBefore(a, b) == a[1] < b[1] \/ (a[1] = b[1] /\ a[2] < b[2])

ScanSquare(my_cell, radius) ==
    {<<my_cell[1] + dx, my_cell[2] + dy>> : dx \in -radius..radius, dy \in -radius..radius}

\* the first cell in scan order of the best score (score > best_score keeps
\* the earlier of two equal cells)
BestOf(w, my_cell, cands) ==
    IF cands = {} THEN None
    ELSE LET scores == {SafeCellScore(w, my_cell, c) : c \in cands}
             best_score == CHOOSE x \in scores : \A y \in scores : x >= y
             top == {c \in cands : SafeCellScore(w, my_cell, c) = best_score}
         IN Some(CHOOSE c \in top : \A o \in top : c = o \/ ScanBefore(c, o))

\* GoalSelector.nearest_safe_cell: the world after the scan (without
\* require_known every unblocked cell of the square gets an entry) and the
\* cell returned
nearest_safe_cell(w, my_cell, radius, require_known) ==
    IF require_known
    THEN LET cands == {c \in DOMAIN w.cell_states :
                          /\ Abs(c[1] - my_cell[1]) <= radius
                          /\ Abs(c[2] - my_cell[2]) <= radius
                          /\ ~is_blocked_for_pathing(w, c)}
         IN [world |-> w, best |-> BestOf(w, my_cell, cands)]
    ELSE LET cands == {c \in ScanSquare(my_cell, radius) : ~is_blocked_for_pathing(w, c)}
             fresh == cands \ DOMAIN w.cell_states
             w1    == [w EXCEPT !.cell_states = @ @@ [c \in fresh |-> CellState]]
         IN [world |-> w1, best |-> BestOf(w1, my_cell, cands)]

\* ---------------------------------------------------------------- SmartAgent

\* agent.py:17
DISABLE_ESCAPE_MODE == FALSE

\* SmartAgent.__init__, the fields the tick logic modelled here uses.  The
\* turn smoothing fields (last_turn_cmd, last_turn_flip_tick, last_mode) only
\* shape the command that is returned and are left out.
SmartAgent ==
    [ last_hp                  |-> None,
      last_danger_mark_tick    |-> -9999,
      consecutive_danger_ticks |-> 0,
      last_cell                |-> None,
      current_goal             |-> None,
      replan_tick              |-> 0,
      route_commit_until       |-> 0,
      route_commit_mode        |-> "",
      checkpoint_index_by_tank |-> EmptyMap ]

\* Goal(cell, mode, score); the score is never read by the tick logic
Goal(cell, mode) == [cell |-> cell, mode |-> mode]

\* the state one get_action call threads through its steps: world model,
\* driver, agent fields, and the calls made so far that touch the TTL maps
\* (tr), with whether start_escape was called and whether with force_new,
\* the branch of agent.py:866-1046 that was taken (mode) and escape_ticks at
\* the moment it was chosen
TickState(w, d, a) ==
    [w |-> w, d |-> d, a |-> a, tr |-> <<>>, started |-> FALSE, forced |-> FALSE,
     mode |-> "", chosen_ticks |-> 0, stuck_triggered |-> FALSE, unblocking |-> FALSE,
     broke_off |-> FALSE, avoid |-> FALSE]

Log(st, e) == [st EXCEPT !.tr = Append(@, e)]

\* unit vector of a heading that is a multiple of 90 degrees.  cos and sin of
\* such a heading differ from these by less than 1e-15, which moves no point
\* used here across a cell boundary.
DirVec(h) ==
    CASE h % 360 = 0   -> <<1, 0>>
      [] h % 360 = 90  -> <<0, 1>>
      [] h % 360 = 180 -> <<-1, 0>>
      [] h % 360 = 270 -> <<0, -1>>

\* geometry.heading_to_angle_deg for a target on one of the axes through the
\* origin point
heading_to_angle_deg(from_x, from_y, to_x, to_y) ==
    CASE to_y = from_y /\ to_x >= from_x -> 0
      [] to_x = from_x /\ to_y > from_y  -> 90
      [] to_y = from_y /\ to_x < from_x  -> 180
      [] to_x = from_x /\ to_y < from_y  -> 270

\* geometry.normalize_angle_diff for angles in 0..359
normalize_angle_diff(target_angle, current_angle) ==
    LET diff == target_angle - current_angle
    IN IF diff > 180 THEN diff - 360
       ELSE IF diff < -180 THEN diff + 360 ELSE diff

\* euclidean_distance(...) <= limit, on squares
DistLeq(x1, y1, x2, y2, limit) ==
    (x2 - x1) * (x2 - x1) + (y2 - y1) * (y2 - y1) <= limit * limit

Dist2(x1, y1, x2, y2) == (x2 - x1) * (x2 - x1) + (y2 - y1) * (y2 - y1)

\* euclidean_distance to a point on one of the axes through (x1, y1)
AxisDist(x1, y1, x2, y2) == Abs(x2 - x1) + Abs(y2 - y1)

\* the three marks one seen tank leaves: its cell for 5.0, and one and two
\* cells ahead of it for 4.0 and 2.5
MarkTankOccupancy(st, my_cell, tank, kind) ==
    LET cell == to_cell(tank.pos[1], tank.pos[2])
        v    == DirVec(tank.heading)
        c1   == to_cell(tank.pos[1] + v[1] * grid_size, tank.pos[2] + v[2] * grid_size)
        c2   == to_cell(tank.pos[1] + v[1] * grid_size * 2,
                        tank.pos[2] + v[2] * grid_size * 2)
    IN IF cell = my_cell THEN st
       ELSE [st EXCEPT !.w = IF kind = "mark_ally_occupancy"
                             THEN mark_ally_occupancy(mark_ally_occupancy(
                                      mark_ally_occupancy(@, cell, 10), c1, 8), c2, 5)
                             ELSE mark_enemy_occupancy(mark_enemy_occupancy(
                                      mark_enemy_occupancy(@, cell, 10), c1, 8), c2, 5),
                       !.tr = @ \o <<kind, kind, kind>>]

RECURSIVE MarkTanksFrom(_, _, _, _, _)
MarkTanksFrom(st, my_cell, tanks, kind, i) ==
    Then(st, IF i > Len(tanks) THEN st
             ELSE MarkTanksFrom(MarkTankOccupancy(st, my_cell, tanks[i], kind),
                                my_cell, tanks, kind, i + 1))

\* SmartAgent._mark_allies_occupancy
_mark_allies_occupancy(st, my_x, my_y, seen_allies) ==
    MarkTanksFrom(st, to_cell(my_x, my_y), seen_allies, "mark_ally_occupancy", 1)

\* SmartAgent._mark_enemy_occupancy
_mark_enemy_occupancy(st, my_x, my_y, seen_enemies) ==
    MarkTanksFrom(st, to_cell(my_x, my_y), seen_enemies, "mark_enemy_occupancy", 1)

\* add the same evidence to the four neighbours of a cell
AddToNeighbors(w, cell, ddanger, dblocked) ==
    LET n == neighbors4(cell)
    IN add_evidence(add_evidence(add_evidence(add_evidence(
           w, n[1], 0, ddanger, dblocked), n[2], 0, ddanger, dblocked),
           n[3], 0, ddanger, dblocked), n[4], 0, ddanger, dblocked)

\* agent.py:123-134, one seen obstacle
ObserveObstacle(w, pos) ==
    LET cell == to_cell(pos[1], pos[2])
    IN AddToNeighbors(add_evidence(w, cell, 0, 0, 150), cell, 0, 35)

\* agent.py:137-170, one seen terrain tile
ObserveTerrain(w, terrain) ==
    LET cell == to_cell(terrain.pos[1], terrain.pos[2])
        w0   == get_state(w, cell)
    IN IF terrain.damage > 0
       THEN CASE terrain.type = "water" ->
                   AddToNeighbors(add_evidence(w0, cell, 0, 340, 25), cell, 90, 18)
              [] terrain.type = "pothole" ->
                   LET dng == w0.cell_states[cell].danger
                       w1  == [w0 EXCEPT !.pothole_cells = @ \cup {cell},
                                         !.cell_states[cell].danger = Min(320, dng + 55)]
                   IN AddToNeighbors(w1, cell, 14, 0)
              [] OTHER ->
                   AddToNeighbors(add_evidence(w0, cell, 0, 130, 22), cell, 45, 8)
       ELSE add_evidence(w0, cell, 35, 0, 0)

RECURSIVE ObserveObstaclesFrom(_, _, _)
ObserveObstaclesFrom(w, obstacles, i) ==
    Then(w, IF i > Len(obstacles) THEN w
            ELSE ObserveObstaclesFrom(ObserveObstacle(w, obstacles[i]), obstacles, i + 1))

RECURSIVE ObserveTerrainsFrom(_, _, _)
ObserveTerrainsFrom(w, terrains, i) ==
    Then(w, IF i > Len(terrains) THEN w
            ELSE ObserveTerrainsFrom(ObserveTerrain(w, terrains[i]), terrains, i + 1))

\* SmartAgent._update_world for a sensor reading without power-ups
_update_world(w, my_x, my_y, sensor) ==
    [ ObserveTerrainsFrom(
          [ ObserveObstaclesFrom(increment_visit(w, to_cell(my_x, my_y)),
                                 sensor.seen_obstacles, 1)
            EXCEPT !.pothole_cells = {} ],
          sensor.seen_terrains, 1)
      EXCEPT !.powerup_cells = {}, !.preferred_powerup_cells = {} ]

\* SmartAgent._standing_on_live_hazard
_standing_on_live_hazard(my_x, my_y, sensor) ==
    \E i \in 1..Len(sensor.seen_terrains) :
        /\ sensor.seen_terrains[i].damage > 0
        /\ DistLeq(my_x, my_y, sensor.seen_terrains[i].pos[1],
                   sensor.seen_terrains[i].pos[2], (grid_size * 8) \div 10)

\* SmartAgent._standing_on_danger, called when not on a live hazard: the
\* lookup gives the tank's cell an entry
_standing_on_danger(w, my_x, my_y) ==
    LET me == to_cell(my_x, my_y)
        w1 == get_state(w, me)
    IN [world |-> w1, ret |-> w1.cell_states[me].danger >= 220]

\* the first tank of the list nearer than every tank before it and no
\* farther than any after it, as _closest_enemy picks with dist < best_dist
_closest_enemy(my_x, my_y, tanks) ==
    IF tanks = <<>> THEN None
    ELSE LET d(i) == Dist2(my_x, my_y, tanks[i].pos[1], tanks[i].pos[2])
             best == CHOOSE i \in 1..Len(tanks) :
                        \A j \in 1..Len(tanks) : d(i) < d(j) \/ (d(i) = d(j) /\ i <= j)
         IN Some(tanks[best])

\* SmartAgent._enemy_in_firing_range
_enemy_in_firing_range(my_x, my_y, tanks, firing_range) ==
    LET best == _closest_enemy(my_x, my_y, tanks)
    IN IF best # None /\ DistLeq(my_x, my_y, best[1].pos[1], best[1].pos[2], firing_range)
       THEN best ELSE None

\* checkpoints.get_firing_range with no ammunition loaded: AMMO_RANGE["LIGHT"]
get_firing_range == 5000

\* whether a tank is within 14.0 and within 24 degrees of the heading
BlocksFront(my_x, my_y, my_heading, tank) ==
    /\ DistLeq(my_x, my_y, tank.pos[1], tank.pos[2], 1400)
    /\ Abs(normalize_angle_diff(
             heading_to_angle_deg(my_x, my_y, tank.pos[1], tank.pos[2]),
             my_heading)) <= 24

\* SmartAgent._blocking_ally_id
_blocking_ally_id(my_x, my_y, my_heading, allies) ==
    IF \E i \in 1..Len(allies) : BlocksFront(my_x, my_y, my_heading, allies[i])
    THEN Some(allies[CHOOSE i \in 1..Len(allies) :
                  /\ BlocksFront(my_x, my_y, my_heading, allies[i])
                  /\ \A j \in 1..(i - 1) :
                        ~BlocksFront(my_x, my_y, my_heading, allies[j])].id)
    ELSE None

\* SmartAgent._enemy_blocking_front
_enemy_blocking_front(my_x, my_y, my_heading, enemies) ==
    \E i \in 1..Len(enemies) : BlocksFront(my_x, my_y, my_heading, enemies[i])

\* SmartAgent._closest_non_hazard_point: whether a harmless tile lies within
\* the given distance (the nearest one does iff some one does)
SafePatchWithin(my_x, my_y, sensor, limit) ==
    \E i \in 1..Len(sensor.seen_terrains) :
        /\ sensor.seen_terrains[i].damage <= 0
        /\ DistLeq(my_x, my_y, sensor.seen_terrains[i].pos[1],
                   sensor.seen_terrains[i].pos[2], limit)

\* agent.py:408-426, one obstacle of the avoidance loop; acc.threat is
\* best_threat in units of 0.01
AvoidObstacle(acc, my_x, my_y, my_heading, pos) ==
    IF ~DistLeq(my_x, my_y, pos[1], pos[2], 2200) THEN acc
    ELSE LET rel == normalize_angle_diff(
                        heading_to_angle_deg(my_x, my_y, pos[1], pos[2]), my_heading)
             threat == (2200 - AxisDist(my_x, my_y, pos[1], pos[2]))
                          + Max(0, 42 - Abs(rel)) * 8
             cell == to_cell(pos[1], pos[2])
         IN IF Abs(rel) > 42 \/ threat <= acc.threat THEN acc
            ELSE [acc EXCEPT !.threat = threat,
                             !.st.w = mark_dead_end(add_evidence(@, cell, 0, 0, 125),
                                                    cell, 1080),
                             !.st.tr = Append(@, "mark_dead_end")]

\* agent.py:431-449, one tank of the avoidance loop
AvoidTank(acc, my_x, my_y, my_heading, tank) ==
    IF ~DistLeq(my_x, my_y, tank.pos[1], tank.pos[2], 1800) THEN acc
    ELSE LET rel == normalize_angle_diff(
                        heading_to_angle_deg(my_x, my_y, tank.pos[1], tank.pos[2]),
                        my_heading)
             threat == (1800 - AxisDist(my_x, my_y, tank.pos[1], tank.pos[2]))
                          + Max(0, 45 - Abs(rel)) * 6
             cell == to_cell(tank.pos[1], tank.pos[2])
         IN IF Abs(rel) > 45 \/ threat <= acc.threat THEN acc
            ELSE [acc EXCEPT !.threat = threat,
                             !.st.w = add_evidence(@, cell, 0, 0, 90)]

RECURSIVE AvoidObstaclesFrom(_, _, _, _, _, _)
AvoidObstaclesFrom(acc, my_x, my_y, my_heading, obstacles, i) ==
    Then(acc, IF i > Len(obstacles) THEN acc
              ELSE AvoidObstaclesFrom(AvoidObstacle(acc, my_x, my_y, my_heading, obstacles[i]),
                                      my_x, my_y, my_heading, obstacles, i + 1))

RECURSIVE AvoidTanksFrom(_, _, _, _, _, _)
AvoidTanksFrom(acc, my_x, my_y, my_heading, tanks, i) ==
    Then(acc, IF i > Len(tanks) THEN acc
              ELSE AvoidTanksFrom(AvoidTank(acc, my_x, my_y, my_heading, tanks[i]),
                                  my_x, my_y, my_heading, tanks, i + 1))

\* SmartAgent._reactive_obstacle_avoidance: the state after the call and
\* whether it returned a command
_reactive_obstacle_avoidance(st, my_x, my_y, my_heading, sensor, seen_allies) ==
    Only({ [st |-> a2.st, avoid |-> a2.threat > 0] :
           a2 \in { AvoidTanksFrom(
                        AvoidObstaclesFrom([st |-> st, threat |-> 0], my_x, my_y,
                                           my_heading, sensor.seen_obstacles, 1),
                        my_x, my_y, my_heading, seen_allies \o sensor.seen_tanks, 1) } })

\* SmartAgent._escape_target_cell: the state after the scans and the cell
EscapeTargetPass(r, my_cell, radius, require_known) ==
    IF r.best # None THEN r
    ELSE Only({ [st   |-> Log([r.st EXCEPT !.w = n.world], "selector_read"),
                 best |-> IF n.best # None /\ n.best # Some(my_cell) THEN n.best ELSE None] :
                n \in { nearest_safe_cell(r.st.w, my_cell, radius, require_known) } })

_escape_target_cell(st, my_cell) ==
    Only({ IF r4.best # None THEN r4
           ELSE Only({ [st   |-> Log([r4.st EXCEPT !.w = c.world], "driver_read"),
                        best |-> IF c.best # None /\ c.best # Some(my_cell)
                                 THEN c.best ELSE None] :
                       c \in { best_immediate_safe_neighbor(r4.st.w, my_cell, TRUE) } }) :
           r4 \in { EscapeTargetPass(EscapeTargetPass(EscapeTargetPass(EscapeTargetPass(
                        [st |-> st, best |-> None],
                        my_cell, 10, TRUE), my_cell, 14, TRUE),
                        my_cell, 18, FALSE), my_cell, 24, FALSE) } })

\* SmartAgent._clear_route_commit
_clear_route_commit(a) ==
    [a EXCEPT !.route_commit_until = 0, !.route_commit_mode = ""]

\* agent.py:887-892: drop the leading path cells whose centre is nearer
\* than 2.5
RECURSIVE PopReached(_, _, _)
PopReached(path, my_x, my_y) ==
    IF path = <<>> THEN path
    ELSE LET c == to_world_center(path[1])
         IN IF Dist2(my_x, my_y, c[1], c[2]) < 250 * 250
            THEN PopReached(Tail(path), my_x, my_y)
            ELSE path

\* checkpoints.STATIC_CORRIDOR_CHECKPOINTS
STATIC_CORRIDOR_CHECKPOINTS ==
    << <<3500, 4500>>, <<3000, 7500>>, <<3500, 9500>>, <<7500, 9500>>,
       <<11500, 9500>>, <<14500, 9500>>, <<15500, 5500>> >>

\* checkpoints.build_checkpoints_to_enemy
build_checkpoints_to_enemy(team) ==
    IF team = 2
    THEN [i \in 1..Len(STATIC_CORRIDOR_CHECKPOINTS) |->
             STATIC_CORRIDOR_CHECKPOINTS[Len(STATIC_CORRIDOR_CHECKPOINTS) + 1 - i]]
    ELSE STATIC_CORRIDOR_CHECKPOINTS

\* checkpoints.lane_offset_checkpoint.  A tank id is modelled by a digit
\* 0..9 standing for the one-character string of that digit, whose
\* character code is 48 + digit.
lane_offset_checkpoint(tank_id, point) ==
    <<point[1], point[2] + 400 * (((48 + tank_id) % 3) - 1)>>

\* agent.py:986-990: the index (from 0) of the first nearest checkpoint
NearestCheckpoint(my_x, my_y, checkpoints) ==
    LET d(i) == Dist2(my_x, my_y, checkpoints[i][1], checkpoints[i][2])
    IN (CHOOSE i \in 1..Len(checkpoints) :
           \A j \in 1..Len(checkpoints) : d(i) < d(j) \/ (d(i) = d(j) /\ i <= j)) - 1

\* agent.py:994-1000: skip the checkpoints already within the arrival radius
RECURSIVE AdvanceCheckpoint(_, _, _, _)
AdvanceCheckpoint(idx, my_x, my_y, checkpoints) ==
    IF idx < Len(checkpoints)
       /\ Dist2(my_x, my_y, checkpoints[idx + 1][1], checkpoints[idx + 1][2]) < 1500 * 1500
    THEN AdvanceCheckpoint(idx + 1, my_x, my_y, checkpoints)
    ELSE idx

\* agent.py:800-804 with the decay after the marks
SenseStageMarksFirst(st, my_x, my_y, seen_allies, sensor) ==
    [ Log([ _mark_enemy_occupancy(
                _mark_allies_occupancy(st, my_x, my_y, seen_allies),
                my_x, my_y, sensor.seen_tanks)
            EXCEPT !.w = decay_dead_ends(@) ],
          "decay_dead_ends")
      EXCEPT !.w = _update_world(@, my_x, my_y, sensor) ]

\* agent.py:800-804: decay, then the occupancy marks, then the sensor update
SenseStage(st, my_x, my_y, seen_allies, sensor) ==
    [ _mark_enemy_occupancy(
          _mark_allies_occupancy(
              Log([st EXCEPT !.w = decay_dead_ends(@)], "decay_dead_ends"),
              my_x, my_y, seen_allies),
          my_x, my_y, sensor.seen_tanks)
      EXCEPT !.w = _update_world(@, my_x, my_y, sensor) ]

\* agent.py:812-814
StuckStage(st, my_x, my_y, enemies_visible, my_heading, blocking_tank_in_front) ==
    Only({ [st  |-> [st EXCEPT !.d = r.driver, !.w = r.world,
                               !.tr = IF r.ret
                                      THEN @ \o <<"mark_dead_end", "mark_dead_end",
                                                  "mark_dead_end">>
                                      ELSE @],
            ret |-> r.ret] :
           r \in { update_stuck(st.d, st.w, my_x, my_y, enemies_visible, my_heading,
                                blocking_tank_in_front) } })

\* agent.py:816-828; hp in whole points, so 0.01 < hp_lost is hp_lost >= 1
HpLossStage(st, my_x, my_y, my_heading, hp, enemies_visible, turn) ==
    LET hp_lost == IF st.a.last_hp = None THEN 0 ELSE st.a.last_hp[1] - hp
        cell    == to_cell(my_x, my_y)
    IN [ (IF /\ st.a.last_hp # None
             /\ ~DISABLE_ESCAPE_MODE
             /\ hp_lost >= 1 /\ hp_lost <= 12
             /\ ~enemies_visible
          THEN [st EXCEPT
                  !.w = mark_dead_end(add_evidence(@, cell, 0, 300, 0), cell, 1200),
                  !.tr = Append(@, "mark_dead_end"),
                  !.d = start_escape(@, my_heading, hp_lost >= 8, turn),
                  !.started = TRUE,
                  !.forced = hp_lost >= 8]
          ELSE st)
         EXCEPT !.a.last_hp = Some(hp) ]

\* agent.py:830-847
DangerStage(st, my_x, my_y, my_heading, sensor, current_tick, turn) ==
    LET my_cell == to_cell(my_x, my_y)
        s1 == IF st.a.last_cell # None /\ Some(my_cell) # st.a.last_cell
              THEN [st EXCEPT !.a.consecutive_danger_ticks = Max(0, @ - 4)]
              ELSE st
        live_hazard_now == _standing_on_live_hazard(my_x, my_y, sensor)
        sd == _standing_on_danger(s1.w, my_x, my_y)
        s2 == IF live_hazard_now THEN s1 ELSE [s1 EXCEPT !.w = sd.world]
        standing_on_danger == live_hazard_now \/ sd.ret
        due == current_tick - s2.a.last_danger_mark_tick >= 18
        s3 == IF standing_on_danger /\ ~DISABLE_ESCAPE_MODE
              THEN [s2 EXCEPT
                      !.a.consecutive_danger_ticks = @ + 1,
                      !.w = IF due
                            THEN mark_dead_end(add_evidence(@, my_cell, 0, 200, 0),
                                               my_cell, 920)
                            ELSE add_evidence(@, my_cell, 0, 200, 0),
                      !.tr = IF due THEN Append(@, "mark_dead_end") ELSE @,
                      !.a.last_danger_mark_tick = IF due THEN current_tick ELSE @,
                      !.d = start_escape(@, my_heading, FALSE, turn),
                      !.started = TRUE,
                      !.a.route_commit_until = 0,
                      !.a.route_commit_mode = ""]
              ELSE [s2 EXCEPT !.a.consecutive_danger_ticks = 0]
    IN [st |-> s3, live_hazard_now |-> live_hazard_now,
        standing_on_danger |-> standing_on_danger]

\* the break-off with the escape heading left in place
BreakOffStage_keeps_heading(r, enemies_visible, hp) ==
    IF /\ ~DISABLE_ESCAPE_MODE
       /\ r.st.d.escape_ticks > 0
       /\ enemies_visible
       /\ ~r.live_hazard_now
       /\ hp >= 52
    THEN [r EXCEPT !.st.d.escape_ticks = 0,
                   !.st.d.path = <<>>,
                   !.st.a = _clear_route_commit([@ EXCEPT !.current_goal = None]),
                   !.st.broke_off = TRUE,
                   !.standing_on_danger = FALSE]
    ELSE r

\* agent.py:849-861; hp_ratio >= 0.52 with max_hp 100
BreakOffStage(r, enemies_visible, hp) ==
    IF /\ ~DISABLE_ESCAPE_MODE
       /\ r.st.d.escape_ticks > 0
       /\ enemies_visible
       /\ ~r.live_hazard_now
       /\ hp >= 52
    THEN [r EXCEPT !.st.d.escape_ticks = 0,
                   !.st.d.escape_heading = None,
                   !.st.d.path = <<>>,
                   !.st.a = _clear_route_commit([@ EXCEPT !.current_goal = None]),
                   !.st.broke_off = TRUE,
                   !.standing_on_danger = FALSE]
    ELSE r

\* a call of MotionDriver.escape_drive from the tick
CallEscapeDrive(st, c) ==
    Only({ [st EXCEPT !.d = r.driver, !.w = r.world,
                      !.tr = Append(@, "driver_read"),
                      !.started = @ \/ r.started] :
           r \in { escape_drive(st.d, st.w, c.my_x, c.my_y, c.my_heading, c.turn) } })

\* a call of MotionDriver.drive_path from the tick
CallDrivePath(st, c) ==
    [st EXCEPT !.w = drive_path(st.d, @, c.my_x, c.my_y),
               !.tr = Append(@, "driver_read")]

\* a call of AStarPlanner.build_path from the tick, storing the path
CallBuildPath(st, c, goal_cell, radius) ==
    [st EXCEPT !.d.path = build_path(st.w, c.my_cell, goal_cell, radius),
               !.tr = Append(@, "planner_read")]

\* agent.py:866-879, the tank stands on a damaging tile
PanicBranch(st, c) ==
    IF SafePatchWithin(c.my_x, c.my_y, c.sensor, 3400) THEN st
    ELSE IF c.avoid THEN st
    ELSE Only({ IF push.best # None /\ push.best # Some(c.my_cell)
                THEN [st EXCEPT !.w = push.world]
                ELSE CallEscapeDrive([st EXCEPT !.w = push.world], c) :
                push \in { best_immediate_safe_neighbor(st.w, c.my_cell, TRUE) } })

\* agent.py:880-916, escape mode
EscapeBranch(st, c) ==
    Only({ Only({ Only({ IF c.standing_on_danger /\ s2.a.consecutive_danger_ticks >= 26
                         THEN [s2 EXCEPT !.w = best_immediate_safe_neighbor(
                                                   @, c.my_cell, TRUE).world]
                         ELSE s2 :
                         s2 \in { IF c.avoid THEN s1
                                  ELSE IF s1.d.path # <<>> THEN CallDrivePath(s1, c)
                                  ELSE CallEscapeDrive(s1, c) } }) :
                  s1 \in { IF r.best = None THEN r.st
                           ELSE [ (IF \/ r.st.d.path = <<>>
                                      \/ r.st.d.path[Len(r.st.d.path)] # r.best[1]
                                      \/ c.current_tick >= r.st.a.replan_tick
                                   THEN [CallBuildPath(r.st, c, r.best[1], 26)
                                           EXCEPT !.a.replan_tick = c.current_tick + 8]
                                   ELSE r.st)
                                  EXCEPT !.a.current_goal =
                                             Some(Goal(r.best[1], "escape_route")),
                                         !.d.path = PopReached(@, c.my_x, c.my_y) ] } }) :
           r \in { _escape_target_cell(st, c.my_cell) } })

\* agent.py:954-979, an enemy is visible but out of range
InterceptBranch(st, c, enemy) ==
    LET enemy_goal_cell == to_cell(enemy.pos[1], enemy.pos[2])
        need_replan ==
            \/ st.d.path = <<>>
            \/ st.a.current_goal = None
            \/ st.a.current_goal[1].cell # enemy_goal_cell
            \/ c.current_tick >= st.a.replan_tick
            \/ c.stuck_triggered
    IN Only({ IF s2.d.path # <<>> THEN CallDrivePath(s2, c) ELSE s2 :
              s2 \in { [ (IF need_replan
                          THEN [CallBuildPath(st, c, enemy_goal_cell, 30)
                                  EXCEPT !.a.replan_tick = c.current_tick + 8,
                                         !.a.current_goal =
                                             Some(Goal(enemy_goal_cell, "intercept_enemy"))]
                          ELSE st)
                         EXCEPT !.d.path = PopReached(@, c.my_x, c.my_y) ] } })

\* agent.py:980-1046, no enemy in sight: follow the checkpoints
CheckpointBranch(st, c) ==
    LET checkpoints == build_checkpoints_to_enemy(c.team)
        n     == Len(checkpoints)
        idx0  == Get(st.a.checkpoint_index_by_tank, c.my_tank_id, -1)
        idx1  == IF idx0 < 0 THEN NearestCheckpoint(c.my_x, c.my_y, checkpoints) ELSE idx0
    IN Only({
         LET idx    == IF idx2 >= n THEN n - 1 ELSE idx2
             target == lane_offset_checkpoint(c.my_tank_id, checkpoints[idx + 1])
             goal_cell == to_cell(target[1], target[2])
             corridor ==
                 {to_cell(lane_offset_checkpoint(c.my_tank_id, checkpoints[i + 1])[1],
                          lane_offset_checkpoint(c.my_tank_id, checkpoints[i + 1])[2]) :
                     i \in idx..(Min(idx + 3, n) - 1)}
             s1 == [st EXCEPT !.a.checkpoint_index_by_tank = Put(@, c.my_tank_id, idx),
                              !.w.checkpoint_cells = corridor]
             need_replan ==
                 \/ s1.d.path = <<>>
                 \/ s1.a.current_goal = None
                 \/ s1.a.current_goal[1].cell # goal_cell
                 \/ c.current_tick >= s1.a.replan_tick
                 \/ c.stuck_triggered
         IN Only({ Log(IF s3.d.path # <<>> THEN CallDrivePath(s3, c) ELSE s3,
                       "agent_read") :
                   s3 \in { [ (IF need_replan
                               THEN [CallBuildPath(s1, c, goal_cell, 28)
                                       EXCEPT !.a.replan_tick = c.current_tick + 15,
                                              !.a.current_goal =
                                                  Some(Goal(goal_cell, "checkpoint"))]
                               ELSE s1)
                              EXCEPT !.d.path = PopReached(@, c.my_x, c.my_y) ] } }) :
         idx2 \in { AdvanceCheckpoint(idx1, c.my_x, c.my_y, checkpoints) } })

\* the unblock rule with the tank of the higher id giving way
ShouldUnblock_higher_yields(stuck_triggered, ally_blocking_front, blocking_id, my_tank_id, enemy_blocking_front) ==
    /\ stuck_triggered
    /\ IF ally_blocking_front
       THEN blocking_id # None /\ my_tank_id > blocking_id[1]
       ELSE enemy_blocking_front

\* agent.py:919-927: whether the combat branch calls start_unblock.  Ids are
\* strings and compare as strings; for the one-digit ids used here that is
\* the order of the digits.
ShouldUnblock(stuck_triggered, ally_blocking_front, blocking_id, my_tank_id, enemy_blocking_front) ==
    /\ stuck_triggered
    /\ IF ally_blocking_front
       THEN blocking_id # None /\ my_tank_id < blocking_id[1]
       ELSE enemy_blocking_front

\* agent.py:917-1046, neither on a hazard nor escaping
CombatBranch(st, c) ==
    LET blocking_id == _blocking_ally_id(c.my_x, c.my_y, c.my_heading, c.seen_allies)
        should_unblock == ShouldUnblock(c.stuck_triggered, c.ally_blocking_front,
                                        blocking_id, c.my_tank_id, c.enemy_blocking_front)
        enemy_in_range == _enemy_in_firing_range(c.my_x, c.my_y, c.sensor.seen_tanks,
                                                 get_firing_range)
        closest_enemy  == _closest_enemy(c.my_x, c.my_y, c.sensor.seen_tanks)
    IN Only({ IF s1.d.unblock_ticks > 0
              THEN [s1 EXCEPT !.d = [unblock_drive(@) EXCEPT !.path = <<>>],
                              !.a.current_goal = None, !.unblocking = TRUE]
              ELSE IF c.avoid
              THEN [s1 EXCEPT !.d.path = <<>>,
                              !.a = _clear_route_commit([@ EXCEPT !.current_goal = None])]
              ELSE IF enemy_in_range # None
              THEN [s1 EXCEPT !.d.path = <<>>, !.a.current_goal = None]
              ELSE IF closest_enemy # None
              THEN InterceptBranch(s1, c, closest_enemy[1])
              ELSE CheckpointBranch(s1, c) :
              s1 \in { IF should_unblock THEN [st EXCEPT !.d = start_unblock(@)]
                       ELSE st } })

\* the cells get_state is called on by a list of look-ups
RECURSIVE TouchCells(_, _)
TouchCells(w, cells) ==
    Then(w, IF cells = {} THEN w
            ELSE LET c == CHOOSE x \in cells : TRUE
                 IN TouchCells(get_state(w, c), cells \ {c}))

\* agent.py:1097-1130.  The command itself is not computed: the speed that
\* ends up in last_move_cmd and the cells _movement_risk_score looks up
\* while shaping it come with the input.
FinishStage(st, c, risk_cells, speed) ==
    [st EXCEPT !.w = TouchCells(@, risk_cells),
               !.tr = Append(@, "agent_read"),
               !.d.last_move_cmd = speed,
               !.a.last_cell = Some(c.my_cell)]

\* SmartAgent.get_action.  in.status and in.sensor are the arguments; in.turn
\* is the draw of random.choice in start_escape (at most one start_escape
\* call of a tick uses its draw); the result is the state after the call with
\* the log of the TTL map calls.  my_team is never None and max_hp is 100.
get_action(w, d, a, current_tick, status, sensor_data, turn, risk_cells, speed) ==
    LET my_x == status.position[1]
        my_y == status.position[2]
        my_heading == status.heading
        seen_allies == SelectSeq(sensor_data.seen_tanks,
                           LAMBDA t : t.team = status.team /\ t.id # status.id)
        sensor == [sensor_data EXCEPT !.seen_tanks =
                      SelectSeq(@, LAMBDA t : t.team # status.team)]
        enemies_visible == Len(sensor.seen_tanks) > 0
        ally_blocking_front ==
            _blocking_ally_id(my_x, my_y, my_heading, seen_allies) # None
        enemy_blocking_front ==
            _enemy_blocking_front(my_x, my_y, my_heading, sensor.seen_tanks)
    IN Only({ Only({ Only({
         LET c == [ my_x |-> my_x, my_y |-> my_y, my_heading |-> my_heading,
                    my_cell |-> to_cell(my_x, my_y), my_tank_id |-> status.id,
                    team |-> status.team, sensor |-> sensor,
                    seen_allies |-> seen_allies,
                    current_tick |-> current_tick, turn |-> turn,
                    stuck_triggered |-> r2.ret, avoid |-> r5.avoid,
                    ally_blocking_front |-> ally_blocking_front,
                    enemy_blocking_front |-> enemy_blocking_front,
                    standing_on_danger |-> r4.standing_on_danger ]
         IN FinishStage([ (IF r4.live_hazard_now THEN PanicBranch(r5.st, c)
                           ELSE IF ~DISABLE_ESCAPE_MODE /\ r5.st.d.escape_ticks > 0
                                THEN EscapeBranch(r5.st, c)
                                ELSE CombatBranch(r5.st, c))
                          EXCEPT !.mode = IF r4.live_hazard_now THEN "panic"
                                          ELSE IF ~DISABLE_ESCAPE_MODE
                                                  /\ r5.st.d.escape_ticks > 0
                                               THEN "escape" ELSE "combat",
                                 !.chosen_ticks = r5.st.d.escape_ticks,
                                 !.stuck_triggered = r2.ret,
                                 !.avoid = r5.avoid ],
                        c, risk_cells, speed) :
         r5 \in { _reactive_obstacle_avoidance(r4.st, my_x, my_y, my_heading, sensor,
                                               seen_allies) } }) :
         r4 \in { BreakOffStage(
                      DangerStage(HpLossStage(r2.st, my_x, my_y, my_heading, status.hp,
                                              enemies_visible, turn),
                                  my_x, my_y, my_heading, sensor, current_tick, turn),
                      enemies_visible, status.hp) } }) :
         r2 \in { StuckStage(SenseStage(TickState(w, d, a), my_x, my_y, seen_allies, sensor),
                             my_x, my_y, enemies_visible, my_heading,
                             ally_blocking_front \/ enemy_blocking_front) } })

NoOp == [op |-> "init"]

\* ======================================================================
\* SpecCost: one WorldModel, driven through its interface the way the agent
\* drives it, on a target cell and one of its neighbours.
\* ======================================================================

TargetCell == <<0, 0>>
NeighborCell == <<1, 0>>

\* bounds of SpecCost
MaxSafeObs == 9
MaxHazardObs == 1
MaxVisits == 1

\* the cells whose cost is queried: the target, its neighbours, and theirs
CostCells == {<<x, y>> : x \in -1..2, y \in -1..1}

SafeOf(w, c) == Get(w.cell_states, c, CellState).safe
DangerOf(w, c) == Get(w.cell_states, c, CellState).danger

OthersIdle == /\ driver' = driver /\ agent' = agent /\ ghost' = ghost

CostInit ==
    /\ world = WorldModel
    /\ driver = MotionDriver
    /\ agent = SmartAgent
    /\ last = NoOp
    /\ ghost = EmptyMap

\* agent.py:170  state.safe += 0.35 on a harmless terrain tile
CostObserveSafe ==
    /\ SafeOf(world, TargetCell) < 35 * MaxSafeObs
    /\ world' = add_evidence(world, TargetCell, 35, 0, 0)
    /\ last' = NoOp /\ OthersIdle

\* agent.py:146-148  water: danger += 3.4, blocked += 0.25
CostObserveHazard ==
    \E c \in {TargetCell, NeighborCell} :
        /\ DangerOf(world, c) < 340 * MaxHazardObs
        /\ world' = add_evidence(world, c, 0, 340, 25)
        /\ last' = NoOp /\ OthersIdle

\* agent.py:121
CostVisit ==
    /\ Get(world.visit_counts, TargetCell, 0) < MaxVisits
    /\ world' = increment_visit(world, TargetCell)
    /\ last' = NoOp /\ OthersIdle

\* agent.py:136-197 and 1012-1015: the agent rebuilds the four cell sets
CostSetCells ==
    \E chk \in SUBSET {TargetCell}, pot \in SUBSET {TargetCell},
       pow \in SUBSET {TargetCell} :
        \E pref \in SUBSET pow :
            /\ world' = [world EXCEPT !.checkpoint_cells = chk,
                                      !.pothole_cells = pot,
                                      !.powerup_cells = pow,
                                      !.preferred_powerup_cells = pref]
            /\ last' = NoOp /\ OthersIdle

CostMarkOccupancy ==
    \/ /\ world' = mark_ally_occupancy(world, TargetCell, 5)
       /\ last' = NoOp /\ OthersIdle
    \/ /\ world' = mark_enemy_occupancy(world, TargetCell, 5)
       /\ last' = NoOp /\ OthersIdle

CostMarkDeadEnd ==
    /\ world' = mark_dead_end(world, NeighborCell, 2)
    /\ last' = NoOp /\ OthersIdle

CostDecay ==
    /\ world' = decay_dead_ends(world)
    /\ last' = NoOp /\ OthersIdle

CostNext ==
    \/ CostObserveSafe
    \/ CostObserveHazard
    \/ CostVisit
    \/ CostSetCells
    \/ CostMarkOccupancy
    \/ CostMarkDeadEnd
    \/ CostDecay

SpecCost == CostInit /\ [][CostNext]_vars

\* C1: in every reachable WorldModel state, every cell (observed or not,
\* whatever its evidence, visits, occupancy and set membership) has a
\* movement cost strictly greater than 0.
C1_CostPositive == \A c \in CostCells : movement_cost(world, c) > 0

\* the floor is what keeps the cost positive here: the sum before the floor
\* is negative (preferred powerup on a checkpoint, safe score at its cap)
C1_Witness ==
    /\ MovementBase(world, TargetCell) < 0
    /\ movement_cost(world, TargetCell) = 35000

\* ======================================================================
\* SpecTtl: the three TTL maps of one WorldModel under marks and decays,
\* with evidence growing on a dead-end cell.
\* ======================================================================

TtlMaps == {"dead_end_ttl", "ally_occupancy_ttl", "enemy_occupancy_ttl"}

\* bounds of SpecTtl
TtlMaxSafeObs == 5
TtlMaxHazardObs == 2

\* the mark_* method for each map
MarkOp(w, k, cell, ttl) ==
    CASE k = "dead_end_ttl"        -> mark_dead_end(w, cell, ttl)
      [] k = "ally_occupancy_ttl"  -> mark_ally_occupancy(w, cell, ttl)
      [] k = "enemy_occupancy_ttl" -> mark_enemy_occupancy(w, cell, ttl)

MarkName(k) ==
    CASE k = "dead_end_ttl"        -> "mark_dead_end"
      [] k = "ally_occupancy_ttl"  -> "mark_ally_occupancy"
      [] k = "enemy_occupancy_ttl" -> "mark_enemy_occupancy"

\* history.  due[c]: the dead-end lifetime the marks so far entitle c to, from
\* the ttl arguments alone.  mk[k][c]: the TTL map k held for c right after
\* its latest mark, and the decays since.
GhostInit ==
    [ due |-> [c \in {TargetCell, NeighborCell} |-> 0],
      mk  |-> [k \in TtlMaps |-> EmptyMap] ]

GhostAfterMark(g, w2, k, cell, ttl) ==
    [ due |-> IF k = "dead_end_ttl"
              THEN [g.due EXCEPT ![cell] = Max(@, ttl)] ELSE g.due,
      mk  |-> [g.mk EXCEPT ![k] = Put(@, cell, [t |-> w2[k][cell], n |-> 0])] ]

GhostAfterDecay(g) ==
    [ due |-> [c \in DOMAIN g.due |-> Max(0, g.due[c] - 2)],
      mk  |-> [k \in TtlMaps |->
                 [c \in DOMAIN g.mk[k] |->
                     IF 2 * g.mk[k][c].n < g.mk[k][c].t
                     THEN [g.mk[k][c] EXCEPT !.n = @ + 1] ELSE g.mk[k][c]]] ]

TtlInit ==
    /\ world = WorldModel
    /\ driver = MotionDriver
    /\ agent = SmartAgent
    /\ last = NoOp
    /\ ghost = GhostInit

TtlMark(k, cell, ttl) ==
    /\ world' = MarkOp(world, k, cell, ttl)
    /\ last' = [op |-> MarkName(k), map |-> k, cell |-> cell, ttl |-> ttl,
                had |-> cell \in DOMAIN world[k], prev |-> Get(world[k], cell, 0)]
    /\ ghost' = GhostAfterMark(ghost, world', k, cell, ttl)
    /\ driver' = driver /\ agent' = agent

\* mark_dead_end with a TTL of 1.0 or 3.0
TtlMarkDeadEnd ==
    \E ttl \in {2, 6} : TtlMark("dead_end_ttl", TargetCell, ttl)

\* mark_ally_occupancy with a TTL of 2.5 or 4.0 (agent.py:89)
TtlMarkAlly ==
    \E ttl \in {5, 8} : TtlMark("ally_occupancy_ttl", NeighborCell, ttl)

\* mark_enemy_occupancy with a TTL of 1.0 or 2.0
TtlMarkEnemy ==
    \E ttl \in {2, 4} : TtlMark("enemy_occupancy_ttl", NeighborCell, ttl)

TtlDecay ==
    /\ world' = decay_dead_ends(world)
    /\ last' = [op |-> "decay_dead_ends"]
    /\ ghost' = GhostAfterDecay(ghost)
    /\ driver' = driver /\ agent' = agent

\* agent.py:170  state.safe += 0.35
TtlGrowSafe ==
    /\ SafeOf(world, TargetCell) < 35 * TtlMaxSafeObs
    /\ world' = add_evidence(world, TargetCell, 35, 0, 0)
    /\ last' = [op |-> "evidence"]
    /\ driver' = driver /\ agent' = agent /\ ghost' = ghost

\* agent.py:146-148  danger += 3.4, blocked += 0.25
TtlHazard ==
    /\ DangerOf(world, TargetCell) < 340 * TtlMaxHazardObs
    /\ world' = add_evidence(world, TargetCell, 0, 340, 25)
    /\ last' = [op |-> "evidence"]
    /\ driver' = driver /\ agent' = agent /\ ghost' = ghost

\* agent.py:136,155  pothole_cells rebuilt from the snapshot
TtlPothole ==
    \E pot \in SUBSET {TargetCell} :
        /\ world' = [world EXCEPT !.pothole_cells = pot]
        /\ last' = [op |-> "evidence"]
        /\ driver' = driver /\ agent' = agent /\ ghost' = ghost

TtlNext ==
    \/ TtlMarkDeadEnd
    \/ TtlMarkAlly
    \/ TtlMarkEnemy
    \/ TtlDecay
    \/ TtlGrowSafe
    \/ TtlHazard
    \/ TtlPothole

SpecTtl == TtlInit /\ [][TtlNext]_vars

\* C2: once mark_dead_end(c, ttl) was called, c is blocked for pathing through
\* every later operation until the decays since have used the lifetime up.
C2_DeadEndStaysBlocked ==
    \A c \in DOMAIN ghost.due :
        ghost.due[c] > 0 => is_blocked_for_pathing(world, c)

\* a dead end with lifetime left whose evidence alone would not block it:
\* danger 6.8 made it blocked, safe growth to 1.75 lifted that, a decay passed
C2_Witness ==
    /\ ghost.due[TargetCell] = 4
    /\ SafeOf(world, TargetCell) >= 150
    /\ DangerOf(world, TargetCell) >= 400
    /\ ~BlockedByEvidence(world, TargetCell)
    /\ is_blocked_for_pathing(world, TargetCell)

IsMark == last.op \in {"mark_dead_end", "mark_ally_occupancy", "mark_enemy_occupancy"}

\* C3: marking a cell that holds TTL a with TTL b leaves max(a, b) stored, in
\* each of the three maps; in particular never a + b and never b < a.
C3_MarkTakesMax ==
    (IsMark /\ last.had) =>
        /\ last.cell \in DOMAIN world[last.map]
        /\ world[last.map][last.cell] = Max(last.prev, last.ttl)

\* mark_dead_end(c, 3.0) then mark_dead_end(c, 1.0): 3.0 stays
C3_Witness ==
    /\ IsMark /\ last.had
    /\ last.map = "dead_end_ttl" /\ last.prev = 6 /\ last.ttl = 2
    /\ world.dead_end_ttl[last.cell] = 6

\* C4: every decay lowers every stored TTL by exactly 1.0 and drops what
\* reaches 0 or below: an entry holding T after its latest mark is present
\* with T - n after n < T decays and absent from the T-th decay on.
C4_DecayByOne ==
    \A k \in TtlMaps : \A c \in DOMAIN ghost.mk[k] :
        LET t == ghost.mk[k][c].t
            n == ghost.mk[k][c].n
        IN IF 2 * n < t
           THEN c \in DOMAIN world[k] /\ world[k][c] = t - 2 * n
           ELSE c \notin DOMAIN world[k]

\* an entry marked 3.0 is gone right after its third decay, and an entry
\* marked 2.5 still holds 0.5 after two
C4_Witness ==
    /\ last.op = "decay_dead_ends"
    /\ TargetCell \in DOMAIN ghost.mk["dead_end_ttl"]
    /\ ghost.mk["dead_end_ttl"][TargetCell] = [t |-> 6, n |-> 3]
    /\ TargetCell \notin DOMAIN world.dead_end_ttl
    /\ NeighborCell \in DOMAIN world.ally_occupancy_ttl
    /\ world.ally_occupancy_ttl[NeighborCell] = 1

\* ======================================================================
\* SpecStuck: one MotionDriver whose update_stuck is called tick after tick,
\* with the agent writing last_move_cmd and the path in between.
\* ======================================================================

\* bound of SpecStuck: update_stuck triggers at most this often
MaxTriggers == 1
\* bound of SpecStuck: the length of an alternating run is counted up to here
MaxAltLen == 22

\* positions of the tank: the first two are 0.14 apart, the third is away
StuckPositions == {<<1150, 1300>>, <<1160, 1310>>, <<1190, 1300>>}
StuckHeadings == {0, 90}
\* commanded speeds 0.3 (trying only when a tank blocks) and 3.0
StuckSpeeds == {30, 300}
StuckPaths == {<<>>, << <<2, 1>> >>}
HazardCell == <<2, 1>>

BlockedOf(w, c) == Get(w.cell_states, c, CellState).blocked

\* history of the update_stuck calls.  run: qualifying stuck calls in a row up
\* to the last call; stucks: qualifying calls since the counter was last reset
\* (first call or trigger); alt: stuck and moving calls have strictly
\* alternated so far; altlen: how many calls that is; triggers: times true.
StuckGhostInit ==
    [run |-> 0, stucks |-> 0, alt |-> TRUE, kind |-> "none", altlen |-> 0, triggers |-> 0]

StuckInit ==
    /\ world = WorldModel
    /\ driver = MotionDriver
    /\ agent = SmartAgent
    /\ last = NoOp
    /\ ghost = StuckGhostInit

StuckUpdate ==
    \E pos \in StuckPositions, ev \in BOOLEAN, h \in StuckHeadings, btf \in BOOLEAN :
        LET first == driver.last_position = None
            q   == ~first /\ StuckQualifies(driver, pos[1], pos[2], ev, btf)
            res == update_stuck(driver, world, pos[1], pos[2], ev, h, btf)
            kind == IF first THEN "none" ELSE IF q THEN "stuck" ELSE "moving"
            alt == ghost.alt /\ (first \/ ghost.kind # kind)
        IN /\ res.ret => ghost.triggers < MaxTriggers
           /\ driver' = res.driver
           /\ world' = res.world
           /\ ghost' = [ run |-> IF q THEN Min(ghost.run + 1, 10) ELSE 0,
                         stucks |-> IF first \/ res.ret THEN 0
                                    ELSE IF q THEN Min(ghost.stucks + 1, 10)
                                    ELSE ghost.stucks,
                         alt |-> alt,
                         kind |-> kind,
                         altlen |-> IF alt /\ ~first
                                    THEN Min(ghost.altlen + 1, MaxAltLen) ELSE 0,
                         triggers |-> ghost.triggers + (IF res.ret THEN 1 ELSE 0) ]
           /\ last' = IF res.ret
                      THEN [ op |-> "update_stuck", ret |-> TRUE, qualifies |-> q,
                             heading |-> h,
                             stucks |-> IF q THEN Min(ghost.stucks + 1, 10)
                                        ELSE ghost.stucks,
                             path_before |-> driver.path,
                             before |-> [k \in 1..3 |->
                                 LET c == ProbeCell(pos[1], pos[2], h, ProbeOffsets[k])
                                 IN [blocked |-> BlockedOf(world, c),
                                     ttl |-> Get(world.dead_end_ttl, c, 0)]] ]
                      ELSE [op |-> "update_stuck", ret |-> FALSE, qualifies |-> q]
           /\ agent' = agent

\* agent.py:1129  self.driver.last_move_cmd = speed
StuckSetMoveCmd ==
    \E speed \in StuckSpeeds :
        /\ driver' = [driver EXCEPT !.last_move_cmd = speed]
        /\ last' = [op |-> "set"]
        /\ world' = world /\ agent' = agent /\ ghost' = ghost

\* agent.py:885, 966, 1025  self.driver.path = build_path(...)
StuckSetPath ==
    \E path \in StuckPaths :
        /\ driver' = [driver EXCEPT !.path = path]
        /\ last' = [op |-> "set"]
        /\ world' = world /\ agent' = agent /\ ghost' = ghost

\* agent.py:825-826  danger += 3.0 and mark_dead_end(cell, ttl=600.0)
StuckMarkHazard ==
    /\ DangerOf(world, HazardCell) = 0
    /\ world' = mark_dead_end(add_evidence(world, HazardCell, 0, 300, 0), HazardCell, 1200)
    /\ last' = [op |-> "set"]
    /\ driver' = driver /\ agent' = agent /\ ghost' = ghost

StuckNext ==
    \/ StuckUpdate
    \/ StuckSetMoveCmd
    \/ StuckSetPath
    \/ StuckMarkHazard

SpecStuck == StuckInit /\ [][StuckNext]_vars

StuckReturnedTrue == last.op = "update_stuck" /\ last.ret

\* C6 as claimed: update_stuck returns true only if that call and the nine
\* calls before it were all qualifying stuck ticks.
C6_TenConsecutive == StuckReturnedTrue => ghost.run >= 10

\* C6 as amended: update_stuck returns true only on a qualifying stuck tick
\* that is at least the tenth qualifying stuck tick since the counter was last
\* reset (by the first call or by a trigger); the ten need not be consecutive.
C6_TenSinceReset == StuckReturnedTrue => (last.qualifies /\ last.stucks >= 10)

\* a trigger whose ten stuck ticks were interrupted by a moving tick
C6_Witness == StuckReturnedTrue /\ last.stucks >= 10 /\ ghost.run < 10

\* C7: while stuck ticks and moving ticks strictly alternate, however long,
\* update_stuck never returns true.
C7_AlternationNeverTriggers ==
    (last.op = "update_stuck" /\ ghost.alt) => ~last.ret

\* twenty-two alternating calls, eleven of them stuck ticks, and no trigger
C7_Witness ==
    /\ last.op = "update_stuck" /\ ghost.alt /\ ghost.altlen >= 22
    /\ ~last.ret /\ ghost.triggers = 0

\* C8: when update_stuck returns true, the three cells 9.0 ahead along
\* heading - 28, heading and heading + 28 have had blocked raised and are
\* dead ends with TTL at least 560, the path is empty and stuck_ticks is 0.
C8_TriggerEffects ==
    StuckReturnedTrue =>
        /\ \A k \in 1..3 :
              LET c == ProbeCell(driver.last_position[1], driver.last_position[2],
                                 last.heading, ProbeOffsets[k])
              IN /\ BlockedOf(world, c) > last.before[k].blocked
                 /\ c \in DOMAIN world.dead_end_ttl
                 /\ world.dead_end_ttl[c] >= 1120
        /\ driver.path = <<>>
        /\ driver.stuck_ticks = 0

\* a trigger with a path set, three distinct probe cells, one of them already
\* a dead end with a longer TTL
C8_Witness ==
    /\ StuckReturnedTrue
    /\ last.path_before # <<>>
    /\ Cardinality({ProbeCell(driver.last_position[1], driver.last_position[2],
                              last.heading, ProbeOffsets[k]) : k \in 1..3}) = 3
    /\ \E k \in 1..3 : last.before[k].ttl = 1200

\* ======================================================================
\* SpecAgent: one SmartAgent driven by get_action, tick after tick, on
\* sensor readings around the first corridor checkpoint.  Every tank and
\* obstacle lies on the row y = 44.0 or the column x = 33.0 the tank moves
\* on, and headings are multiples of 90 degrees, so that all angles are
\* exact.  Each reading shows a harmless tile next to the tank.
\* ======================================================================

MaxTick == 3

Tank(x, y, heading, team, id) ==
    [pos |-> <<x, y>>, heading |-> heading, team |-> team, id |-> id]

Terrain(x, y, damage, type) ==
    [pos |-> <<x, y>>, damage |-> damage, type |-> type]

Status(x, y, heading, hp) ==
    [position |-> <<x, y>>, heading |-> heading, hp |-> hp, team |-> 1, id |-> 1]

Sensor(tanks, obstacles, terrains) ==
    [seen_tanks |-> tanks, seen_obstacles |-> obstacles, seen_terrains |-> terrains]

\* what the sensor shows in the readings below: tiles, tanks and a crate
Seen ==
    [ Grass      |-> Terrain(4300, 4400, 0, "grass"),
      Water      |-> Terrain(3300, 4400, 1, "water"),
      Pothole    |-> Terrain(3300, 4400, 1, "pothole"),
      Lava       |-> Terrain(3300, 4400, 2, "lava"),
      WaterEast  |-> Terrain(4300, 4400, 1, "water"),
      WaterWest  |-> Terrain(2300, 4400, 1, "water"),
      WaterNorth |-> Terrain(3300, 5400, 1, "water"),
      WaterSouth |-> Terrain(3300, 3400, 1, "water"),
      AllyNear   |-> Tank(4500, 4400, 180, 1, 2),
      AllyAside  |-> Tank(3300, 2400, 90, 1, 2),
      EnemyNear  |-> Tank(4500, 4400, 180, 2, 3),
      EnemyFar   |-> Tank(3300, 10400, 270, 2, 3),
      Crate      |-> <<4500, 4400>> ]

\* one call's arguments and draws
Input(status, sensor, turn, risk_cells, speed) ==
    [status |-> status, sensor |-> sensor, turn |-> turn,
     risk_cells |-> risk_cells, speed |-> speed]

AgentInputs ==
    { Input(Status(3300, 4400, 0, 100), Sensor(<<>>, <<>>, <<Seen.Grass>>),
            135, {<<3, 4>>}, 300),
      Input(Status(3305, 4400, 0, 95), Sensor(<<>>, <<>>, <<Seen.Grass>>),
            -150, {<<3, 4>>}, 300),
      Input(Status(3300, 4400, 0, 90), Sensor(<<Seen.AllyAside>>, <<>>, <<Seen.Grass>>),
            180, {<<3, 4>>, <<4, 4>>}, 300),
      Input(Status(3300, 4400, 0, 100), Sensor(<<>>, <<>>, <<Seen.Grass, Seen.Water>>),
            120, {<<3, 4>>}, 300),
      Input(Status(3300, 4400, 90, 40), Sensor(<<Seen.AllyAside, Seen.EnemyFar>>, <<>>, <<Seen.Grass>>),
            -120, {<<3, 4>>, <<3, 5>>}, 300),
      Input(Status(3300, 4400, 0, 100), Sensor(<<Seen.EnemyNear>>, <<>>, <<Seen.Grass>>),
            165, {<<3, 4>>}, 30),
      Input(Status(3300, 4400, 0, 100), Sensor(<<Seen.EnemyFar>>, <<>>, <<Seen.Grass, Seen.Pothole>>),
            -135, {<<3, 4>>}, 300),
      Input(Status(4300, 4400, 0, 100), Sensor(<<Seen.AllyNear>>, <<Seen.Crate>>, <<Seen.Grass, Seen.Lava>>),
            150, {<<4, 4>>}, 30) }

\* what an operation that may touch the escape state leaves in last: whether
\* it called start_escape (started) and with force_new (forced), whether
\* escape mode was on before it, and how it changed the counter and heading
EscapeRecord(op, d, started, forced) ==
    [ op |-> op, started |-> started, forced |-> forced,
      was_escaping  |-> driver.escape_ticks > 0,
      increased     |-> d.escape_ticks > driver.escape_ticks,
      at_restart    |-> d.escape_ticks = Max(driver.escape_ticks, 45),
      kept_heading  |-> d.escape_heading = driver.escape_heading,
      reached_zero  |-> driver.escape_ticks > 0 /\ d.escape_ticks = 0 ]

\* what a get_action call leaves in last: the above and the log of its TTL
\* map calls
TickRecord(st) ==
    [tr |-> st.tr, mode |-> st.mode, chosen_ticks |-> st.chosen_ticks,
     ticks |-> st.d.escape_ticks, has_route |-> st.d.path # <<>>]
        @@ EscapeRecord("get_action", st.d, st.started, st.forced)

\* one get_action call on input in at tick ghost.tick
Tick(in) ==
    \E st \in {get_action(world, driver, agent, ghost.tick, in.status, in.sensor,
                           in.turn, in.risk_cells, in.speed)} :
       /\ world' = st.w
       /\ driver' = st.d
       /\ agent' = st.a
       /\ last' = TickRecord(st)
       /\ ghost' = [ghost EXCEPT !.tick = @ + 1]

AgentInit ==
    /\ world = WorldModel
    /\ driver = MotionDriver
    /\ agent = SmartAgent
    /\ last = NoOp
    /\ ghost = [tick |-> 0]

AgentTick ==
    /\ ghost.tick < MaxTick
    /\ \E in \in AgentInputs : Tick(in)

AgentNext == AgentTick

SpecAgent == AgentInit /\ [][AgentNext]_vars

\* C5: in every get_action call decay_dead_ends runs exactly once, before
\* every mark_dead_end, mark_ally_occupancy and mark_enemy_occupancy call of
\* that tick and before every planner, driver, selector or agent read of the
\* TTL maps in that tick: it is the first entry of the call's log and occurs
\* nowhere else in it.
C5_DecayOnceFirst ==
    last.op = "get_action" =>
        /\ Len(last.tr) >= 1
        /\ last.tr[1] = "decay_dead_ends"
        /\ \A i \in 2..Len(last.tr) : last.tr[i] # "decay_dead_ends"

\* a tick that marked allies, enemies and a dead end and had the selector,
\* the planner and the driver read the maps
C5_Witness ==
    /\ last.op = "get_action"
    /\ \A e \in {"mark_ally_occupancy", "mark_enemy_occupancy", "mark_dead_end",
                 "selector_read", "planner_read", "driver_read"} :
          \E i \in 2..Len(last.tr) : last.tr[i] = e

\* ======================================================================
\* SpecEscape: the escape state of one agent's driver.  The agent first runs
\* up to MaxEscapeTick get_action ticks; from then on start_escape and
\* escape_drive are called on its driver directly, any number of times.
\* ======================================================================

MaxEscapeTick == 2

EscapeInputs ==
    { Input(Status(3300, 4400, 0, 90), Sensor(<<>>, <<>>, <<Seen.Grass>>),
            -150, {<<3, 4>>}, 300),
      Input(Status(3300, 4400, 0, 100), Sensor(<<Seen.EnemyNear>>, <<>>, <<Seen.Grass>>),
            165, {<<3, 4>>}, 30),
      Input(Status(3300, 4400, 0, 100),
            Sensor(<<>>, <<>>, <<Seen.WaterEast, Seen.WaterWest, Seen.WaterNorth, Seen.WaterSouth>>),
            120, {<<3, 4>>}, 300),
      Input(Status(3300, 4400, 0, 100),
            Sensor(<<>>, <<>>, <<Seen.WaterEast, Seen.WaterWest, Seen.WaterNorth, Seen.WaterSouth,
                                 Seen.WaterEast, Seen.WaterWest, Seen.WaterNorth, Seen.WaterSouth>>),
            -165, {<<3, 4>>}, 300) }

EscapePosition == <<3300, 4400>>
EscapeHeading == 0

EscapeInit ==
    /\ world = WorldModel
    /\ driver = MotionDriver
    /\ agent = SmartAgent
    /\ last = NoOp
    /\ ghost = [tick |-> 0, direct |-> FALSE]

EscapeTick ==
    /\ ~ghost.direct
    /\ ghost.tick < MaxEscapeTick
    /\ \E in \in EscapeInputs : Tick(in)

\* driver.start_escape(my_heading, force_new)
EscapeStart ==
    \E force_new \in BOOLEAN, turn \in EscapeTurns :
        \E d \in {start_escape(driver, EscapeHeading, force_new, turn)} :
           /\ driver' = d
           /\ last' = EscapeRecord("start_escape", d, TRUE, force_new)
           /\ ghost' = [ghost EXCEPT !.direct = TRUE]
           /\ UNCHANGED <<world, agent>>

\* the draws escape_drive can make: it draws only if it calls start_escape
EscapeDriveDraws ==
    IF escape_drive(driver, world, EscapePosition[1], EscapePosition[2],
                    EscapeHeading, 120).started
    THEN EscapeTurns ELSE {120}

\* driver.escape_drive(my_x, my_y, my_heading, top_speed)
EscapeDrive ==
    \E turn \in EscapeDriveDraws :
        \E r \in {escape_drive(driver, world, EscapePosition[1], EscapePosition[2],
                                EscapeHeading, turn)} :
           /\ driver' = r.driver
           /\ world' = r.world
           /\ last' = EscapeRecord("escape_drive", r.driver, r.started, FALSE)
           /\ ghost' = [ghost EXCEPT !.direct = TRUE]
           /\ UNCHANGED agent

EscapeNext ==
    \/ EscapeTick
    \/ EscapeStart
    \/ EscapeDrive

SpecEscape == EscapeInit /\ [][EscapeNext]_vars

\* C9 as claimed: once escape mode is on, escape_ticks does not increase over
\* an operation unless that operation called start_escape with force_new, and
\* a start_escape call without force_new leaves escape_ticks unchanged.
C9_NoIncreaseUnlessForced ==
    (last.op # "init" /\ last.was_escaping) =>
        /\ last.increased => last.forced
        /\ (last.op = "start_escape" /\ ~last.forced) => ~last.increased

\* C9 as amended: once escape mode is on, escape_ticks does not increase over
\* an operation unless that operation called start_escape, with or without
\* force_new; a start_escape call made while escaping puts escape_ticks at
\* max(escape_ticks, 45) either way, and without force_new it leaves
\* escape_heading unchanged.
C9_NoIncreaseUnlessStarted ==
    (last.op # "init" /\ last.was_escaping) =>
        /\ last.increased => last.started
        /\ last.op = "start_escape" =>
              /\ last.at_restart
              /\ ~last.forced => last.kept_heading

\* a start_escape call without force_new, made while escaping with fewer
\* than 45 ticks left, that put the counter back up
C9_Witness ==
    /\ last.op = "start_escape"
    /\ last.was_escaping
    /\ ~last.forced
    /\ last.increased
    /\ last.kept_heading
    /\ driver.escape_ticks = 45

\* C10: after every driver operation and every get_action tick,
\* escape_heading is None if and only if escape_ticks is 0.
C10_HeadingIffTicks ==
    (driver.escape_heading = None) <=> (driver.escape_ticks = 0)

\* an escape_drive call that counted the last tick down and cleared the
\* heading
C10_Witness ==
    /\ last.op = "escape_drive"
    /\ last.reached_zero
    /\ driver.escape_heading = None

\* C11 as claimed: a get_action call that acts in escape mode leaves
\* escape_ticks exactly one below its value when the mode was chosen.
C11_EscapeTickLowersByOne ==
    (last.op = "get_action" /\ last.mode = "escape")
        => last.ticks = last.chosen_ticks - 1

\* ======================================================================
\* SpecPlanner: one AStarPlanner on a WorldModel.  Up to MaxSetups
\* observations shape the cells around the start; then build_path is called
\* once and runs turn by turn: ghost.search is the planner's frontier,
\* came_from and g_score, ghost.pops counts the heappop calls.
\* ======================================================================

MaxSetups == 2
MaxPops == 40

\* the arguments build_path is called with, and the cells the observations
\* fall on
PlanInputs ==
    [ starts |-> {<<0, 0>>, <<1, 0>>},
      goals  |-> {<<0, 0>>, <<1, 0>>, <<1, 1>>, <<2, 0>>},
      radii  |-> {1, 2},
      cells  |-> {<<0, 0>>, <<1, 0>>, <<0, 1>>, <<1, 1>>} ]

PlanInit ==
    /\ world = WorldModel
    /\ driver = MotionDriver
    /\ agent = SmartAgent
    /\ last = NoOp
    /\ ghost = [phase |-> "setup", setups |-> 0, pops |-> 0, search |-> None,
                start |-> None, goal |-> None, radius |-> 0]

\* agent.py:835-842 and 412-416: a cell becomes a dead end
PlanMarkDeadEnd ==
    /\ ghost.phase = "setup" /\ ghost.setups < MaxSetups
    /\ \E cell \in PlanInputs.cells :
          /\ cell \notin DOMAIN world.dead_end_ttl
          /\ world' = mark_dead_end(world, cell, 1200)
    /\ ghost' = [ghost EXCEPT !.setups = @ + 1]
    /\ UNCHANGED <<driver, agent, last>>

\* agent.py:123-134: an obstacle is seen on a cell
PlanObstacle ==
    /\ ghost.phase = "setup" /\ ghost.setups < MaxSetups
    /\ \E cell \in PlanInputs.cells :
          /\ ~BlockedByEvidence(world, cell)
          /\ world' = ObserveObstacle(world, to_world_center(cell))
    /\ ghost' = [ghost EXCEPT !.setups = @ + 1]
    /\ UNCHANGED <<driver, agent, last>>

\* agent.py:169-197 and 1003: a cell seen harmless nine times (safe 3.15)
\* that holds a preferred power-up and lies on the checkpoint corridor
PlanFavour ==
    /\ ghost.phase = "setup" /\ ghost.setups < MaxSetups
    /\ \E cell \in PlanInputs.cells :
          /\ cell \notin world.preferred_powerup_cells
          /\ world' = [add_evidence(world, cell, 315, 0, 0)
                         EXCEPT !.powerup_cells = @ \cup {cell},
                                !.preferred_powerup_cells = @ \cup {cell},
                                !.checkpoint_cells = @ \cup {cell}]
    /\ ghost' = [ghost EXCEPT !.setups = @ + 1]
    /\ UNCHANGED <<driver, agent, last>>

\* planner.py:22-36: build_path is called
PlanStart ==
    /\ ghost.phase = "setup"
    /\ \E start \in PlanInputs.starts, goal \in PlanInputs.goals,
          radius \in PlanInputs.radii :
          ghost' = [ghost EXCEPT !.phase = "search", !.start = start, !.goal = goal,
                                 !.radius = radius,
                                 !.search = SearchStart(start, goal)]
    /\ UNCHANGED <<world, driver, agent, last>>

\* planner.py:38-59: one turn of the while loop
PlanStep ==
    /\ ghost.phase = "search"
    /\ ghost.search.path = None
    /\ ghost.pops < MaxPops
    /\ ghost' = [ghost EXCEPT !.pops = @ + 1,
                              !.search = AStarStep(@, world, ghost.start, ghost.goal,
                                                   ghost.radius)]
    /\ UNCHANGED <<world, driver, agent, last>>

\* planner.py:24, 46 and 61: build_path returns
PlanReturn ==
    /\ ghost.phase = "search"
    /\ ghost.search.path # None
    /\ driver' = [driver EXCEPT !.path = ghost.search.path[1]]
    /\ last' = [op |-> "build_path", start |-> ghost.start, goal |-> ghost.goal,
                radius |-> ghost.radius, path |-> ghost.search.path[1]]
    /\ ghost' = [ghost EXCEPT !.phase = "done"]
    /\ UNCHANGED <<world, agent>>

PlanNext ==
    \/ PlanMarkDeadEnd
    \/ PlanObstacle
    \/ PlanFavour
    \/ PlanStart
    \/ PlanStep
    \/ PlanReturn

SpecPlanner == PlanInit /\ [][PlanNext]_vars

\* the while loop keeps turning and the function returns when it is left
SpecPlannerFair == SpecPlanner /\ WF_vars(PlanStep) /\ WF_vars(PlanReturn)

\* whether a 4-connected route leads from start to goal inside the window
\* over cells that, start aside, are not blocked for pathing
PlanReachable(w, start, goal, radius) ==
    LET Open(c) == /\ Abs(c[1] - start[1]) <= radius
                   /\ Abs(c[2] - start[2]) <= radius
                   /\ ~is_blocked_for_pathing(w, c)
        RECURSIVE Flood(_)
        Flood(seen) ==
            LET more == {n \in UNION {{neighbors4(c)[i] : i \in 1..4} : c \in seen} :
                            Open(n)}
            IN IF more \subseteq seen THEN seen ELSE Flood(seen \cup more)
    IN goal \in Flood({start})

PlanReturned == ghost.phase = "done" /\ last.start # last.goal

\* C12 as claimed: for start # goal the path is empty exactly when the goal
\* is outside the window or every route to it inside the window passes
\* through a blocked cell, the start cell counting as a cell of the route.
C12_EmptyIffWalledOff ==
    PlanReturned =>
        (last.path = <<>>
            <=> \/ is_blocked_for_pathing(world, last.start)
                \/ ~PlanReachable(world, last.start, last.goal, last.radius))

\* C12: for start # goal build_path returns the empty path exactly when no
\* route inside the window reaches the goal over cells that, start aside,
\* are not blocked; the stepwise search and the build_path operator agree.
C12_EmptyIffNoOpenRoute ==
    PlanReturned =>
        /\ last.path = <<>>
              <=> ~PlanReachable(world, last.start, last.goal, last.radius)
        /\ last.path = build_path(world, last.start, last.goal, last.radius)

\* a goal walled off by two blocked neighbours gave the empty path
C12_Witness ==
    /\ PlanReturned
    /\ last.start = <<0, 0>>
    /\ last.goal = <<1, 1>> /\ last.radius = 1
    /\ is_blocked_for_pathing(world, <<1, 0>>)
    /\ is_blocked_for_pathing(world, <<0, 1>>)
    /\ last.path = <<>>

\* C13: build_path(s, s) returns exactly <<s>>, whatever the radius and the
\* world, also when s is blocked or a dead end.
C13_SameCellPath ==
    (ghost.phase = "done" /\ last.start = last.goal)
        => /\ last.path = <<last.start>>
           /\ build_path(world, last.start, last.goal, last.radius) = <<last.start>>

\* build_path(s, s) returned on a dead-end cell s
C13_Witness ==
    /\ ghost.phase = "done"
    /\ last.start = last.goal
    /\ last.start \in DOMAIN world.dead_end_ttl
    /\ is_blocked_for_pathing(world, last.start)
    /\ last.path = <<last.start>>

\* C14: every build_path call terminates: under SpecPlannerFair a search
\* that has begun leads to the return of the call, and the loop is left
\* (goal popped or queue empty) before MaxPops turns are used up.
C14_SearchTerminates ==
    /\ (ghost.phase = "search") ~> (ghost.phase = "done")
    /\ [](ghost.phase = "search" => (ghost.search.path # None \/ ghost.pops < MaxPops))

\* a call returned after several turns in a world where the cost of a cell
\* would be negative without its floor
C14_Witness ==
    /\ ghost.phase = "done"
    /\ ghost.pops >= 4
    /\ last.start # last.goal
    /\ \E c \in PlanInputs.cells :
          /\ movement_cost_unfloored(world, c) < 0
          /\ movement_cost(world, c) > 0

\* ======================================================================
\* GoalSelector.choose_goal
\* ======================================================================

_manhattan(a, b) == Abs(a[1] - b[1]) + Abs(a[2] - b[2])

\* goal_selector.py:24-34, in cost units
_cell_safety_value(w, cell) ==
    LET state == Get(w.cell_states, cell, CellState)
    IN 2800 * state.safe - 6500 * state.danger - 4200 * state.blocked
         - (8 * local_block_pressure(w, cell)) \div 10
         - 18000 * Get(w.visit_counts, cell, 0)

\* the loops "if score > best_score: best_cell = cell" over cands in scan
\* order: the first cell of the highest score, None for no candidate
FirstBest(cands, Score(_)) ==
    IF cands = {} THEN None
    ELSE Only({ Only({ Some(CHOOSE c \in top : \A o \in top : c = o \/ ScanBefore(c, o)) :
                top \in { {p[2] : p \in {q \in pairs :
                              \A r \in pairs : q[1] >= r[1]}} } }) :
                pairs \in { {<<Score(c), c>> : c \in cands} } })

\* get_state on each of the cells
InsertCells(w, cells) ==
    [w EXCEPT !.cell_states = @ @@ [c \in cells \ DOMAIN w.cell_states |-> CellState]]

\* goal_selector.py:43-64; the score is times ten.  _cell_safety_value
\* gives every cell scored an entry.
_choose_attack_standoff(w, my_cell, enemy_cell) ==
    LET cands == {c \in ScanSquare(enemy_cell, 5) :
                     /\ ~is_blocked_for_pathing(w, c)
                     /\ _manhattan(c, enemy_cell) >= 2
                     /\ _manhattan(c, enemy_cell) <= 6}
        Score(cell) == 18 * _cell_safety_value(w, cell)
                         - 350000 * _manhattan(cell, my_cell)
                         - 150000 * Abs(_manhattan(cell, enemy_cell) - 4)
    IN [world |-> InsertCells(w, cands), best |-> FirstBest(cands, Score)]

\* goal_selector.py:66-88.  A neighbour counts as unknown while it has no
\* entry: the cells scored earlier in the scan have got theirs.
_choose_control_lane(w, my_cell, radius) ==
    LET cands == {c \in ScanSquare(my_cell, radius) :
                     /\ ~is_blocked_for_pathing(w, c)
                     /\ _manhattan(c, my_cell) >= 3
                     /\ _manhattan(c, my_cell) <= radius}
        Unknown(n, cell) == /\ n \notin DOMAIN w.cell_states
                            /\ ~(n \in cands /\ ScanBefore(n, cell))
        _unknown_neighbors(cell) ==
            Cardinality({k \in 1..4 : Unknown(neighbors4(cell)[k], cell)})
        Score(cell) == _cell_safety_value(w, cell)
                         + 65000 * _unknown_neighbors(cell)
                         - 12000 * Abs(_manhattan(cell, my_cell) - 7)
    IN [world |-> InsertCells(w, cands), best |-> FirstBest(cands, Score)]

\* goal_selector.py:182-200: value < best_value keeps the first cell of the
\* lowest value
ExploreCell(w, my_cell) ==
    LET cands == {c \in ScanSquare(my_cell, 8) : ~is_blocked_for_pathing(w, c)}
        Value(cell) ==
            LET state == Get(w.cell_states, cell, CellState)
            IN 100000 * Get(w.visit_counts, cell, 0)
                 + 10000 * Abs(_manhattan(cell, my_cell) - 5)
                 + 4500 * state.danger + 3600 * state.blocked
                 + (7 * local_block_pressure(w, cell)) \div 10
                 - 700 * Min(state.safe, 300)
        Score(cell) == 0 - Value(cell)
    IN [world |-> InsertCells(w, cands), best |-> FirstBest(cands, Score)]

\* the power-up type texts that contain "med"
MedTypes == {"medkit"}

\* min(..., key=distance) and the stable sort by distance followed by [0]:
\* the first cell of the list at the smallest distance
FirstNearest(cells, my_cell) ==
    cells[CHOOSE k \in 1..Len(cells) :
            \A j \in 1..Len(cells) :
                \/ _manhattan(cells[k], my_cell) < _manhattan(cells[j], my_cell)
                \/ (_manhattan(cells[k], my_cell) = _manhattan(cells[j], my_cell) /\ k <= j)]

\* agent.py:199-207, SmartAgent._standing_on_danger as choose_goal is handed
\* it: the world after the call and the answer
standing_on_danger_fn(w, my_x, my_y, sensor) ==
    IF _standing_on_live_hazard(my_x, my_y, sensor)
    THEN [world |-> w, ret |-> TRUE]
    ELSE _standing_on_danger(w, my_x, my_y)

\* GoalSelector.choose_goal, called the way SmartAgent would call it:
\* standing_on_danger_fn is SmartAgent._standing_on_danger, whose lookup gives
\* the tank's cell an entry unless a live hazard answers first.  hp_ratio is
\* in percent.  The result is the world after the call and the goal.
choose_goal(w, my_x, my_y, hp_ratio, sensor) ==
    LET my_cell     == to_cell(my_x, my_y)
        enemy_cells == [k \in 1..Len(sensor.seen_tanks) |->
                           to_cell(sensor.seen_tanks[k].pos[1], sensor.seen_tanks[k].pos[2])]
        powerups    == [k \in 1..Len(sensor.seen_powerups) |->
                           to_cell(sensor.seen_powerups[k].pos[1],
                                   sensor.seen_powerups[k].pos[2])]
        medkits     == [k \in 1..Len(SelectSeq(sensor.seen_powerups,
                                        LAMBDA u : u.type \in MedTypes)) |->
                           to_cell(SelectSeq(sensor.seen_powerups,
                                        LAMBDA u : u.type \in MedTypes)[k].pos[1],
                                   SelectSeq(sensor.seen_powerups,
                                        LAMBDA u : u.type \in MedTypes)[k].pos[2])]
        w1          == standing_on_danger_fn(w, my_x, my_y, sensor).world
        standing    == standing_on_danger_fn(w, my_x, my_y, sensor).ret
        safe        == nearest_safe_cell(w1, my_cell, 10, TRUE).best
        Return(wr, cell, mode) == [world |-> wr, goal |-> Some(Goal(cell, mode))]
    IN IF /\ powerups # <<>> /\ ~standing
          /\ _manhattan(FirstNearest(powerups, my_cell), my_cell) <= 2
       THEN Return(w1, FirstNearest(powerups, my_cell), "pickup_now")
       ELSE IF standing /\ safe # None
       THEN Return(w1, safe[1], "escape_danger")
       ELSE IF hp_ratio < 45 /\ medkits # <<>>
       THEN Return(w1, FirstNearest(medkits, my_cell), "low_hp_medkit")
       ELSE IF hp_ratio < 45 /\ safe # None
       THEN Return(w1, safe[1], "low_hp_safe")
       ELSE IF enemy_cells # <<>> /\ hp_ratio >= 58
       THEN Only({ IF standoff.best # None
                   THEN Return(standoff.world, standoff.best[1], "attack_standoff")
                   ELSE Return(standoff.world, FirstNearest(enemy_cells, my_cell), "attack") :
                   standoff \in { _choose_attack_standoff(
                                      w1, my_cell, FirstNearest(enemy_cells, my_cell)) } })
       ELSE IF powerups # <<>>
       THEN IF hp_ratio < 80 /\ medkits # <<>>
            THEN Return(w1, FirstNearest(medkits, my_cell), "collect_medkit")
            ELSE Return(w1, FirstNearest(powerups, my_cell), "collect_powerup")
       ELSE Only({ IF lane.best # None
                   THEN Return(lane.world, lane.best[1], "control_lane")
                   ELSE Only({ IF far.best # None
                               THEN Return(far.world, far.best[1], "explore")
                               ELSE [world |-> far.world, goal |-> None] :
                               far \in { ExploreCell(lane.world, my_cell) } }) :
                   lane \in { _choose_control_lane(w1, my_cell, 12) } })

\* ======================================================================
\* SpecSelector: one GoalSelector on a WorldModel.  Up to MaxSetups
\* observations shape the cells around the tank, then choose_goal is called
\* once.
\* ======================================================================

Powerup(x, y, type) == [pos |-> <<x, y>>, type |-> type]

\* the tank stands in the middle of cell (0, 0); what it may see: an enemy
\* three or four cells east, a crate on a neighbouring cell, water under its
\* tracks
SelectorInputs ==
    [ my_x      |-> 500,
      my_y      |-> 500,
      hp_ratios |-> {30, 70, 90, 100},
      tanks     |-> {<<>>, <<Tank(3500, 500, 180, 2, 3)>>, <<Tank(4500, 500, 180, 2, 3)>>},
      powerups  |-> {<<>>, <<Powerup(1500, 500, "ammo_heavy")>>,
                     <<Powerup(1500, 1500, "medkit")>>},
      terrains  |-> {<<>>, <<Terrain(500, 500, 1, "water")>>},
      hazards   |-> {<<0, 0>>, <<1, 0>>} ]

\* agent.py:145-153: water is seen on a cell
SelHazard ==
    /\ ghost.phase = "setup" /\ ghost.setups < MaxSetups
    /\ \E cell \in SelectorInputs.hazards :
          /\ Get(world.cell_states, cell, CellState).danger < 340
          /\ world' = ObserveTerrain(world,
                         Terrain(to_world_center(cell)[1], to_world_center(cell)[2],
                                 1, "water"))
    /\ ghost' = [ghost EXCEPT !.setups = @ + 1]
    /\ UNCHANGED <<driver, agent, last>>

\* the cell of the enemy four cells east
FarEnemyCell == <<4, 0>>

\* the cells around the far enemy that _choose_attack_standoff may pick,
\* the tank's own cell left out
WallCells ==
    {c \in ScanSquare(FarEnemyCell, 5) :
        /\ _manhattan(c, FarEnemyCell) \in 2..6
        /\ c # to_cell(SelectorInputs.my_x, SelectorInputs.my_y)}

\* agent.py:123-134, the obstacles of one snapshot, one on each given cell
\* of one column, in scan order
RECURSIVE ObserveObstacleColumn(_, _)
ObserveObstacleColumn(w, cells) ==
    Then(w, IF cells = {} THEN w
            ELSE LET c == CHOOSE x \in cells : \A o \in cells : x[2] <= o[2]
                 IN ObserveObstacleColumn(ObserveObstacle(w, to_world_center(c)),
                                          cells \ {c}))

\* agent.py:123-134, the obstacles of one snapshot, column after column
RECURSIVE ObserveObstacleCells(_, _)
ObserveObstacleCells(w, cells) ==
    Then(w, IF cells = {} THEN w
            ELSE LET x == CHOOSE v \in {c[1] : c \in cells} :
                              \A o \in cells : v <= o[1]
                     column == {c \in cells : c[1] = x}
                 IN ObserveObstacleCells(ObserveObstacleColumn(w, column),
                                         cells \ column))

\* agent.py:123-134: one sensor snapshot shows an obstacle on every cell
\* within reach of the standoff scan around the far enemy
SelWall ==
    /\ ghost.phase = "setup" /\ ghost.setups < MaxSetups
    /\ ~BlockedByEvidence(world, <<FarEnemyCell[1], FarEnemyCell[2] + 2>>)
    /\ \E w \in {ObserveObstacleCells(world, WallCells)} : world' = w
    /\ ghost' = [ghost EXCEPT !.setups = @ + 1]
    /\ UNCHANGED <<driver, agent, last>>

\* goal_selector.py:127-202
ChooseGoal ==
    /\ ghost.phase = "setup"
    /\ \E hp_ratio \in SelectorInputs.hp_ratios, tanks \in SelectorInputs.tanks,
          powerups \in SelectorInputs.powerups, terrains \in SelectorInputs.terrains :
          \E sensor \in { [seen_tanks |-> tanks, seen_powerups |-> powerups,
                           seen_terrains |-> terrains] } :
          \E r \in { choose_goal(world, SelectorInputs.my_x, SelectorInputs.my_y,
                                 hp_ratio, sensor) } :
             /\ world' = r.world
             /\ last' = [op |-> "choose_goal",
                         standing |-> standing_on_danger_fn(
                                          world, SelectorInputs.my_x, SelectorInputs.my_y,
                                          sensor).ret,
                         hp_ratio |-> hp_ratio,
                         sensor |-> sensor,
                         own |-> Get(world.cell_states,
                                     to_cell(SelectorInputs.my_x, SelectorInputs.my_y),
                                     CellState),
                         goal |-> r.goal]
    /\ ghost' = [ghost EXCEPT !.phase = "done"]
    /\ UNCHANGED <<driver, agent>>

SelectorNext ==
    \/ PlanMarkDeadEnd
    \/ PlanObstacle
    \/ PlanFavour
    \/ SelHazard
    \/ SelWall
    \/ ChooseGoal

SpecSelector == PlanInit /\ [][SelectorNext]_vars

\* C15 as claimed: a goal that choose_goal returns lies on a cell that is not
\* blocked for pathing when the call returns.
C15_GoalNeverBlocked ==
    (last.op = "choose_goal" /\ last.goal # None)
        => ~is_blocked_for_pathing(world, last.goal[1].cell)

\* C16 as claimed: when the tank stands in danger the call returns an
\* escape_danger goal or no goal.
C16_DangerRuleDecides ==
    (last.op = "choose_goal" /\ last.standing)
        => (last.goal = None \/ last.goal[1].mode = "escape_danger")

\* the tank's cell in SpecSelector
SelectorCell == to_cell(SelectorInputs.my_x, SelectorInputs.my_y)

\* C31: on a cell of danger 0 and blocked 0, with nothing in the sensor
\* snapshot and full hit points, choose_goal returns an "explore" goal at a
\* Manhattan distance of 4 to 6, and build_path (default radius 18) from the
\* tank's cell to it is not empty
C31_ExploreFromCalmCell ==
    ( /\ last.op = "choose_goal"
      /\ last.own.danger = 0 /\ last.own.blocked = 0
      /\ last.sensor.seen_tanks = <<>> /\ last.sensor.seen_powerups = <<>>
      /\ last.sensor.seen_terrains = <<>>
      /\ last.hp_ratio = 100 )
    => /\ last.goal # None
       /\ last.goal[1].mode = "explore"
       /\ _manhattan(last.goal[1].cell, SelectorCell) \in 4..6
       /\ build_path(world, SelectorCell, last.goal[1].cell, 18) # <<>>

\* C32: with an enemy at Manhattan distance 4 and an HP ratio of 0.9 (no
\* power-up in sight, the tank not standing on danger) choose_goal returns a
\* goal whose mode starts with "attack", and the goal cell differs from the
\* enemy's cell whenever some cell at Manhattan distance 2 to 6 from the
\* enemy is not blocked for pathing
C32_AttackStandoff ==
    ( /\ last.op = "choose_goal"
      /\ last.hp_ratio = 90
      /\ last.sensor.seen_tanks # <<>>
      /\ to_cell(last.sensor.seen_tanks[1].pos[1], last.sensor.seen_tanks[1].pos[2]) = FarEnemyCell
      /\ last.sensor.seen_powerups = <<>>
      /\ ~last.standing )
    => /\ last.goal # None
       /\ last.goal[1].mode \in {"attack", "attack_standoff"}
       /\ (\E c \in ScanSquare(FarEnemyCell, 6) :
              /\ _manhattan(c, FarEnemyCell) \in 2..6
              /\ ~is_blocked_for_pathing(world, c))
          => last.goal[1].cell # FarEnemyCell

\* ======================================================================
\* SpecCommand: the frame of get_action around its steering logic.  The
\* limits are read from the tank status (agent.py:777-779), the list of
\* seen tanks is split by team (agent.py:786-793), the steering logic leaves
\* some turn, speed and barrel rotation, and agent.py:1118-1145 turns them
\* into the command.  Angles and speeds are in hundredths.
\* ======================================================================

\* agent.py:757-758
_clamp(value, lo, hi) == Max(lo, Min(value, hi))

\* float(my_tank_status.get(key, default) or default): a missing field and a
\* field of 0 both give the default
LimitOrDefault(field, default) ==
    IF field = None THEN default
    ELSE IF field[1] = 0 THEN default
    ELSE field[1]

\* the three clamps without the panic floor before them
FinishCommand_no_floor(top_speed, max_heading, max_barrel, raw, live_hazard_now) ==
    [ heading_rotation_angle |-> Max(0 - max_heading, Min(raw.turn, max_heading)),
      move_speed             |-> Max(0 - top_speed, Min(raw.speed, top_speed)),
      barrel_rotation_angle  |-> Max(0 - max_barrel, Min(raw.barrel, max_barrel)) ]

\* agent.py:1118-1145: the panic floor of the speed, then the three clamps
FinishCommand(top_speed, max_heading, max_barrel, raw, live_hazard_now) ==
    [ heading_rotation_angle |-> _clamp(raw.turn, 0 - max_heading, max_heading),
      move_speed             |-> _clamp(IF live_hazard_now
                                        THEN Max(raw.speed, (92 * top_speed) \div 100)
                                        ELSE raw.speed,
                                        0 - top_speed, top_speed),
      barrel_rotation_angle  |-> _clamp(raw.barrel, 0 - max_barrel, max_barrel) ]

\* agent.py:786-793: with a team given, tank.get("team") is called on every
\* entry of seen_tanks, which an entry that is not a dict does not have
TeamSplitRaises(my_team, seen_tanks) ==
    /\ my_team # None
    /\ \E k \in 1..Len(seen_tanks) : ~seen_tanks[k].is_dict

\* get_action from entry to return, the steering logic between
\* agent.py:800 and 1117 replaced by its result raw.  No statement of
\* get_action is inside a try block: what is raised leaves the call.
CommandFrame(status, seen_tanks, raw, live_hazard_now) ==
    IF TeamSplitRaises(status.team, seen_tanks)
    THEN [raised |-> TRUE, command |-> None]
    ELSE [raised |-> FALSE,
          command |-> Some(FinishCommand(
                               LimitOrDefault(status.top_speed, 300),
                               LimitOrDefault(status.heading_spin_rate, 3000),
                               LimitOrDefault(status.barrel_spin_rate, 3000),
                               raw, live_hazard_now))]

\* the limits a status may carry (None for a missing field), the entries of
\* seen_tanks (a dict or an object with attributes), and what the steering
\* logic may leave
CommandInputs ==
    [ top_speeds  |-> {None, Some(0), Some(300), Some(500)},
      spin_rates  |-> {None, Some(0), Some(2000), Some(7000)},
      teams       |-> {None, Some(1)},
      seen_tanks  |-> {<<>>, <<[is_dict |-> TRUE, team |-> 2]>>,
                       <<[is_dict |-> FALSE, team |-> 2]>>},
      turns       |-> {-9000, 0, 1500, 9000},
      speeds      |-> {-400, 0, 150, 400},
      barrels     |-> {-9000, 2500} ]

CommandInit ==
    /\ world = WorldModel
    /\ driver = MotionDriver
    /\ agent = SmartAgent
    /\ last = NoOp
    /\ ghost = [calls |-> 0]

MaxCalls == 1

\* one get_action call
Command ==
    /\ ghost.calls < MaxCalls
    /\ \E top_speed \in CommandInputs.top_speeds,
          heading_spin_rate \in CommandInputs.spin_rates,
          barrel_spin_rate \in CommandInputs.spin_rates,
          team \in CommandInputs.teams,
          seen_tanks \in CommandInputs.seen_tanks,
          turn \in CommandInputs.turns,
          speed \in CommandInputs.speeds,
          barrel \in CommandInputs.barrels,
          live_hazard_now \in BOOLEAN :
          \E status \in { [top_speed |-> top_speed, heading_spin_rate |-> heading_spin_rate,
                           barrel_spin_rate |-> barrel_spin_rate, team |-> team] } :
          \E r \in { CommandFrame(status, seen_tanks,
                                  [turn |-> turn, speed |-> speed, barrel |-> barrel],
                                  live_hazard_now) } :
             /\ last' = [op |-> "command", status |-> status, raised |-> r.raised,
                         command |-> r.command]
             /\ driver' = IF r.raised THEN driver
                          ELSE [driver EXCEPT !.last_move_cmd = r.command[1].move_speed]
    /\ ghost' = [ghost EXCEPT !.calls = @ + 1]
    /\ UNCHANGED <<world, agent>>

CommandNext == Command

SpecCommand == CommandInit /\ [][CommandNext]_vars

\* whether a value is within a limit the status carries; nothing is asked
\* of a field the status does not have
WithinStatusLimit(value, field) == field = None \/ Abs(value) <= field[1]

\* C17 as claimed: the command a get_action call returns is within the
\* _heading_spin_rate, _top_speed and _barrel_spin_rate of the status it was
\* given.
C17_CommandWithinStatusLimits ==
    (last.op = "command" /\ ~last.raised) =>
        /\ WithinStatusLimit(last.command[1].heading_rotation_angle,
                             last.status.heading_spin_rate)
        /\ WithinStatusLimit(last.command[1].move_speed, last.status.top_speed)
        /\ WithinStatusLimit(last.command[1].barrel_rotation_angle,
                             last.status.barrel_spin_rate)

\* C18 as claimed: no get_action call ends with an exception leaving it.
C18_NoExceptionLeaves ==
    last.op = "command" => ~last.raised

\* ======================================================================
\* SpecHazard: one agent through up to MaxHazardTick get_action ticks on and
\* beside damaging terrain.  ghost.in is the input of the last tick.
\* ======================================================================

MaxHazardTick == 3

\* the tank at the east edge of cell (3, 4) or two units on at the west edge
\* of cell (4, 4), each time with water reported on its own cell, with and
\* without an enemy in sight and a loss of hit points, or with grass ahead
HazardInputs ==
    { Input(Status(3900, 4400, 0, 100), Sensor(<<>>, <<>>, <<Seen.Water>>),
            120, {<<3, 4>>}, 300),
      Input(Status(4100, 4400, 0, 100), Sensor(<<>>, <<>>, <<Seen.WaterEast>>),
            -135, {<<4, 4>>}, 300),
      Input(Status(4100, 4400, 0, 95), Sensor(<<Seen.EnemyFar>>, <<>>, <<Seen.WaterEast>>),
            150, {<<4, 4>>}, 300),
      Input(Status(3900, 4400, 0, 95), Sensor(<<>>, <<>>, <<Seen.Water>>),
            -120, {<<3, 4>>}, 300),
      Input(Status(3900, 4400, 0, 100), Sensor(<<>>, <<>>, <<Seen.Grass>>),
            165, {<<3, 4>>}, 300) }

HazardInit ==
    /\ world = WorldModel
    /\ driver = MotionDriver
    /\ agent = SmartAgent
    /\ last = NoOp
    /\ ghost = [tick |-> 0, in |-> None]

\* one get_action call
HazardTick ==
    /\ ghost.tick < MaxHazardTick
    /\ \E in \in HazardInputs :
       \E st \in {get_action(world, driver, agent, ghost.tick, in.status, in.sensor,
                             in.turn, in.risk_cells, in.speed)} :
          /\ world' = st.w
          /\ driver' = st.d
          /\ agent' = st.a
          /\ last' = TickRecord(st)
          /\ ghost' = [tick |-> ghost.tick + 1, in |-> Some(in)]

HazardNext == HazardTick

SpecHazard == HazardInit /\ [][HazardNext]_vars

\* the cell of the tank in the last tick's input
OwnCell == to_cell(ghost.in[1].status.position[1], ghost.in[1].status.position[2])

\* whether the last tick's sensor reading shows damaging terrain on the
\* tank's own cell
DamagingTerrainAtOwnCell ==
    \E k \in 1..Len(ghost.in[1].sensor.seen_terrains) :
        /\ ghost.in[1].sensor.seen_terrains[k].damage > 0
        /\ to_cell(ghost.in[1].sensor.seen_terrains[k].pos[1],
                   ghost.in[1].sensor.seen_terrains[k].pos[2]) = OwnCell

\* C19 as claimed: after a tick whose reading shows damaging terrain on the
\* tank's own cell, escape_ticks is above 0 and the own cell is a dead end.
C19_HazardStartsEscapeAndMarks ==
    (last.op = "get_action" /\ DamagingTerrainAtOwnCell)
        => /\ driver.escape_ticks > 0
           /\ OwnCell \in DOMAIN world.dead_end_ttl

\* C20 as claimed: no step lowers the safe, danger or blocked evidence of a
\* cell or removes its entry.
C20_EvidenceNeverLowered ==
    [][\A c \in DOMAIN world.cell_states :
          /\ c \in DOMAIN world'.cell_states
          /\ world'.cell_states[c].safe >= world.cell_states[c].safe
          /\ world'.cell_states[c].danger >= world.cell_states[c].danger
          /\ world'.cell_states[c].blocked >= world.cell_states[c].blocked]_vars

\* ======================================================================
\* The steering commands of MotionDriver (driver.py:42-98, 144-181) and of
\* SmartAgent._reactive_obstacle_avoidance.  Angles are in hundredths of a
\* degree, speeds in ten-thousandths of a unit: top_speed 3.0 is 30000.
\* ======================================================================

\* top_speed * p / 100
Pct(p, top_speed) == (p * top_speed) \div 100

\* driver.py:46-62 drive_to_point, from the heading error diff on
drive_to_point_command(diff, top_speed) ==
    LET turn_limit == IF Abs(diff) <= 1800 THEN 1000
                      ELSE IF Abs(diff) <= 4500 THEN 1600 ELSE 2200
    IN [ turn  |-> Max(0 - turn_limit, Min(turn_limit, diff)),
         speed |-> IF Abs(diff) > 6000 THEN Pct(50, top_speed)
                   ELSE IF Abs(diff) > 3000 THEN Pct(76, top_speed)
                   ELSE top_speed ]

\* drive_path coming to a halt on an empty path
drive_path_halt(top_speed) ==
    [turn |-> 0, speed |-> 0]

\* driver.py:65-66 drive_path with an empty path
drive_path_creep(top_speed) ==
    [turn |-> 0, speed |-> Max(7000, Pct(58, top_speed))]

\* driver.py:78-98 drive_path steering at the centre of path[0], from the
\* heading error diff on
drive_path_steer(diff, top_speed) ==
    LET turn_limit == IF Abs(diff) <= 2000 THEN 1300 ELSE 1800
    IN [ turn  |-> IF Abs(diff) < 400 THEN 0
                   ELSE Max(0 - turn_limit, Min(turn_limit, diff)),
         speed |-> IF Abs(diff) > 5500 THEN Pct(60, top_speed)
                   ELSE IF Abs(diff) > 2400 THEN Pct(82, top_speed)
                   ELSE top_speed ]

\* driver.py:148-157 unblock_drive; unblock_ticks is the count before the call
unblock_drive_command(unblock_ticks, top_speed, add_turn) ==
    IF unblock_ticks <= 0 THEN [turn |-> 0, speed |-> 0]
    ELSE [ turn  |-> IF add_turn /\ unblock_ticks - 1 > 6
                     THEN (IF (unblock_ticks - 1) % 2 = 0 THEN 2200 ELSE -2200)
                     ELSE 0,
           speed |-> 0 - Pct(60, top_speed) ]

\* driver.py:174-177 escape_drive with no neighbour to go to, from the error
\* diff between escape_heading and the heading on
escape_heading_command(diff, top_speed) ==
    [ turn  |-> Max(-1800, Min(1800, diff)),
      speed |-> IF Abs(diff) < 3000 THEN top_speed ELSE Pct(50, top_speed) ]

\* agent.py:451-452: what _reactive_obstacle_avoidance returns when something
\* is in the way; rel is the bearing of the worst threat
obstacle_avoid_command(rel, top_speed) ==
    [ turn  |-> IF rel >= 0 THEN -2600 ELSE 2600,
      speed |-> Max(5000, Pct(30, top_speed)) ]

\* ======================================================================
\* get_action's steering logic (agent.py:866-1127): the branch that picks the
\* turn and the speed, the ally yield, _self_preserving_command,
\* _stabilize_direction_and_speed, the panic floor and the clamp.  What the
\* tank sees is a scene: the risk the three look-ahead cells add (the same
\* for every heading when the cells around the tank carry the same
\* evidence), one obstacle and one damaging terrain tile, each by distance
\* and absolute bearing.  Risk and score are in millionths.
\* ======================================================================

\* geometry.normalize_angle_diff in hundredths, for angles in 0..35999
normalize_angle_diff_h(target_angle, current_angle) ==
    LET diff == target_angle - current_angle
    IN IF diff > 18000 THEN diff - 36000
       ELSE IF diff < -18000 THEN diff + 36000 ELSE diff

\* agent.py:622-634: the share of one seen obstacle
ObstacleRisk(obstacle, predicted_heading, speed) ==
    LET cone_width == IF speed > 10000 THEN 5800 ELSE 4400
        max_probe  == IF speed > 5000 THEN 1800 ELSE 1200
        rel        == Abs(normalize_angle_diff_h(obstacle.bearing, predicted_heading))
    IN IF obstacle.dist > max_probe \/ rel > cone_width THEN 0
       ELSE Max(0, (max_probe - obstacle.dist) * 3300) + Max(0, (cone_width - rel) * 300)

\* agent.py:636-648: the share of one damaging terrain tile
TerrainRisk(terrain, predicted_heading) ==
    LET rel == Abs(normalize_angle_diff_h(terrain.bearing, predicted_heading))
    IN IF terrain.dist > 1600 \/ rel > 6200 THEN 0
       ELSE Max(0, (1600 - terrain.dist) * 1800) + Max(0, (6200 - rel) * 150)

\* SmartAgent._movement_risk_score
_movement_risk_score(scene, my_heading, turn, speed) ==
    LET predicted_heading == (my_heading + (65 * turn) \div 100) % 36000
    IN scene.cells
       + (IF scene.obstacle = None THEN 0
          ELSE ObstacleRisk(scene.obstacle[1], predicted_heading, speed))
       + (IF scene.terrain = None THEN 0
          ELSE TerrainRisk(scene.terrain[1], predicted_heading))
       + (IF speed < 1000 THEN 350000 ELSE 0)

\* agent.py:670-671
turn_offsets == <<0, 1600, -1600, 3000, -3000, 4400, -4400>>

speed_scales == <<100, 80, 60, 42>>

\* agent.py:679-692: one candidate of the double loop
PreserveStep(acc, scene, my_heading, base, t_off, scale, max_heading, top_speed) ==
    LET candidate_turn  == _clamp(base.turn + t_off, 0 - max_heading, max_heading)
        candidate_speed == _clamp((base.speed * scale) \div 100, 0 - top_speed, top_speed)
        score == _movement_risk_score(scene, my_heading, candidate_turn, candidate_speed)
                   + 180 * Abs(candidate_turn - base.turn)
                   + 22 * Abs(candidate_speed - base.speed)
                   - 7 * Max(0, candidate_speed)
    IN IF score < acc.best_score - 120000
       THEN [best_score |-> score, turn |-> candidate_turn, speed |-> candidate_speed]
       ELSE acc

RECURSIVE PreserveFrom(_, _, _, _, _, _, _)
\* agent.py:678-692: the candidates from number k on, offsets outside, scales inside
PreserveFrom(acc, k, scene, my_heading, base, max_heading, top_speed) ==
    Then(acc, IF k >= Len(turn_offsets) * Len(speed_scales) THEN acc
              ELSE PreserveFrom(
                       PreserveStep(acc, scene, my_heading, base,
                                    turn_offsets[(k \div Len(speed_scales)) + 1],
                                    speed_scales[(k % Len(speed_scales)) + 1],
                                    max_heading, top_speed),
                       k + 1, scene, my_heading, base, max_heading, top_speed))

\* SmartAgent._self_preserving_command
_self_preserving_command(scene, my_heading, turn, speed, max_heading, top_speed) ==
    LET base == [ turn  |-> _clamp(turn, 0 - max_heading, max_heading),
                  speed |-> _clamp(speed, 0 - top_speed, top_speed) ]
        base_risk == _movement_risk_score(scene, my_heading, base.turn, base.speed)
    IN IF base_risk < 1600000 THEN base
       ELSE Only({ [turn |-> b.turn, speed |-> b.speed] :
                   b \in { PreserveFrom([best_score |-> base_risk, turn |-> base.turn,
                                         speed |-> base.speed],
                                        0, scene, my_heading, base,
                                        max_heading, top_speed) } })

\* agent.py:727-739: the turn of a stable mode, rate-limited against the last
\* commanded turn, with the dead band and the hold against a quick sign flip
StableTurn(a, current_tick, turn) ==
    LET previous_turn == a.last_turn_cmd
        limited == previous_turn + _clamp(turn - previous_turn, -360, 360)
        banded  == IF Abs(limited) < 220 THEN 0 ELSE limited
        sign_changed == (banded > 0 /\ 0 > previous_turn) \/ (banded < 0 /\ 0 < previous_turn)
        held == sign_changed /\ current_tick - a.last_turn_flip_tick < 58
                /\ Abs(banded) < 1100 /\ Abs(previous_turn) > 250
    IN [ turn |-> IF held
                  THEN (IF previous_turn < 0 THEN 0 - Max(200, Abs(banded))
                        ELSE Max(200, Abs(banded)))
                  ELSE banded,
         last_turn_flip_tick |-> IF sign_changed /\ ~held THEN current_tick
                                 ELSE a.last_turn_flip_tick ]

\* mode.startswith(prefix)
StartsWith(mode, prefix) ==
    /\ Len(mode) >= Len(prefix)
    /\ SubSeq(mode, 1, Len(prefix)) = prefix

\* agent.py:743
CruiseMode(mode) ==
    \/ StartsWith(mode, "route_commit") \/ StartsWith(mode, "checkpoint")
    \/ mode \in {"control_lane", "explore", "local_probe", "patrol"}

\* agent.py:714-721
StableMode(mode, standing_on_danger, enemies_visible) ==
    /\ ~standing_on_danger /\ ~enemies_visible
    /\ ~StartsWith(mode, "emergency") /\ ~StartsWith(mode, "avoid")
    /\ ~StartsWith(mode, "attack") /\ ~StartsWith(mode, "unblock")

\* SmartAgent._stabilize_direction_and_speed: the turn and the speed it
\* returns and the agent after it; ally_pressure is the ally occupancy score
\* of the tank's own cell, in hundredths
_stabilize_direction_and_speed(a, current_tick, mode, standing_on_danger, enemies_visible, scene, my_heading, ally_pressure, top_speed, turn, speed) ==
    IF ~StableMode(mode, standing_on_danger, enemies_visible)
    THEN [ turn |-> turn, speed |-> speed,
           agent |-> [a EXCEPT !.last_turn_cmd = turn, !.last_mode = mode] ]
    ELSE LET st == StableTurn(a, current_tick, turn)
             risk == _movement_risk_score(scene, my_heading, st.turn, speed)
         IN [ turn  |-> st.turn,
              speed |-> IF CruiseMode(mode) /\ risk < 1350000 /\ ally_pressure < 20
                        THEN (IF Abs(st.turn) <= 800 THEN Max(speed, Pct(86, top_speed))
                              ELSE Max(speed, Pct(72, top_speed)))
                        ELSE IF ally_pressure >= 20 THEN Min(speed, Pct(62, top_speed))
                        ELSE speed,
              agent |-> [a EXCEPT !.last_turn_cmd = st.turn, !.last_mode = mode,
                                  !.last_turn_flip_tick = st.last_turn_flip_tick] ]

\* MotionDriver.drive_path for a path summed up as p: whether it is empty,
\* the heading error to the centre of path[0], whether the world holds
\* path[0] dangerous, and the heading error to the cell that
\* best_immediate_safe_neighbor returned for the tank's cell (None when it
\* returned None)
drive_path_command(p, top_speed) ==
    IF p.empty THEN drive_path_creep(top_speed)
    ELSE IF p.dangerous /\ p.safe_neighbor # None
         THEN drive_to_point_command(p.safe_neighbor[1], top_speed)
         ELSE drive_path_steer(p.diff, top_speed)

\* MotionDriver.escape_drive: to the neighbour that
\* best_immediate_safe_neighbor returned, first without and then with
\* allow_risky, and along escape_heading when both returned None
escape_drive_command(neighbor, escape_diff, top_speed) ==
    IF neighbor # None THEN drive_to_point_command(neighbor[1], top_speed)
    ELSE escape_heading_command(escape_diff, top_speed)

\* agent.py:866-879: the tank stands on a live hazard
PanicCommand(sit, top_speed) ==
    LET c == IF sit.safe_patch # None /\ sit.safe_patch[1].dist <= 3400
             THEN drive_to_point_command(sit.safe_patch[1].diff, top_speed)
             ELSE IF sit.obstacle_avoid # None
             THEN obstacle_avoid_command(sit.obstacle_avoid[1], top_speed)
             ELSE IF sit.push_cell # None
             THEN drive_to_point_command(sit.push_cell[1], top_speed)
             ELSE escape_drive_command(sit.push_cell, sit.escape_diff, top_speed)
    IN [ turn |-> c.turn, speed |-> Max(c.speed, Pct(92, top_speed)),
         mode |-> "panic_hazard_escape" ]

\* agent.py:880-916: escape_ticks > 0
EscapeCommand(sit, top_speed) ==
    LET c1 == IF sit.obstacle_avoid # None
              THEN obstacle_avoid_command(sit.obstacle_avoid[1], top_speed)
                     @@ [mode |-> "emergency_escape_avoid"]
              ELSE IF ~sit.path.empty
              THEN drive_path_command(sit.path, top_speed)
                     @@ [mode |-> "emergency_escape_route"]
              ELSE escape_drive_command(sit.push_cell, sit.escape_diff, top_speed)
                     @@ [mode |-> "emergency_escape"]
        c2 == IF sit.standing_on_danger /\ sit.consecutive_danger_ticks >= 8
                 /\ sit.safe_patch # None /\ sit.safe_patch[1].dist <= 2800
              THEN LET c == drive_to_point_command(sit.safe_patch[1].diff, top_speed)
                   IN [ turn |-> c.turn, speed |-> Max(c.speed, Pct(72, top_speed)),
                        mode |-> "emergency_to_safe_patch" ]
              ELSE c1
    IN IF sit.standing_on_danger /\ sit.consecutive_danger_ticks >= 26
          /\ sit.push_cell # None
       THEN LET c == drive_to_point_command(sit.push_cell[1], top_speed)
            IN [ turn |-> c.turn, speed |-> Max(c.speed, Pct(68, top_speed)),
                 mode |-> "emergency_push_out" ]
       ELSE c2

\* agent.py:934-1046: the combat branch once unblock_ticks is settled
CombatCommand(sit, top_speed) ==
    IF sit.unblock_ticks > 0
    THEN unblock_drive_command(sit.unblock_ticks, top_speed, sit.enemy_blocking_front)
           @@ [mode |-> "unblock"]
    ELSE IF sit.obstacle_avoid # None
    THEN obstacle_avoid_command(sit.obstacle_avoid[1], top_speed) @@ [mode |-> "avoid_wall"]
    ELSE IF sit.enemy_in_range # None
    THEN [ turn |-> drive_to_point_command(sit.enemy_in_range[1], top_speed).turn,
           speed |-> Pct(25, top_speed), mode |-> "engage_visible" ]
    ELSE IF sit.closest_enemy # None
    THEN (IF ~sit.path.empty THEN drive_path_command(sit.path, top_speed)
          ELSE drive_to_point_command(sit.closest_enemy[1], top_speed))
           @@ [mode |-> "intercept_enemy"]
    ELSE IF sit.checkpoint # None
    THEN LET c == IF ~sit.path.empty THEN drive_path_command(sit.path, top_speed)
                  ELSE drive_to_point_command(sit.checkpoint[1].diff, top_speed)
         IN IF sit.checkpoint[1].ally_on_goal
            THEN [ turn |-> c.turn, speed |-> Min(c.speed, Pct(55, top_speed)),
                   mode |-> "checkpoint_yield_1/6" ]
            ELSE c @@ [mode |-> "checkpoint_1/6"]
    ELSE [turn |-> 0, speed |-> Pct(50, top_speed), mode |-> "patrol"]

\* agent.py:866-1046: the branch taken
SteerBranch(sit, top_speed) ==
    IF sit.live_hazard_now THEN PanicCommand(sit, top_speed)
    ELSE IF sit.escape_ticks > 0 THEN EscapeCommand(sit, top_speed)
    ELSE CombatCommand(sit, top_speed)

\* the yield that renames the mode and leaves the speed alone
AllyYield_keeps_speed(c, sit, top_speed) ==
    IF sit.ally_blocking_front /\ ~sit.live_hazard_now
    THEN [ turn |-> c.turn, speed |-> c.speed,
           mode |-> IF StartsWith(c.mode, "checkpoint") \/ c.mode = "patrol"
                    THEN "yield_ally" ELSE c.mode ]
    ELSE c

\* agent.py:1092-1095: the yield to an ally in the lane ahead
AllyYield(c, sit, top_speed) ==
    IF sit.ally_blocking_front /\ ~sit.live_hazard_now
    THEN [ turn |-> c.turn, speed |-> Min(c.speed, Pct(52, top_speed)),
           mode |-> IF StartsWith(c.mode, "checkpoint") \/ c.mode = "patrol"
                    THEN "yield_ally" ELSE c.mode ]
    ELSE c

\* agent.py:866-1145, the barrel left at rest: the command, the mode, and
\* the agent after the call
Steer(a, current_tick, sit, scene, top_speed, max_heading) ==
    Only({ Only({ Only({ [ command |-> FinishCommand(
                                          top_speed, max_heading, max_heading,
                                          [turn |-> c3.turn, speed |-> c3.speed, barrel |-> 0],
                                          sit.live_hazard_now),
                           mode  |-> c1.mode,
                           agent |-> c3.agent ] :
                         c3 \in { _stabilize_direction_and_speed(
                                      a, current_tick, c1.mode, sit.standing_on_danger,
                                      sit.enemies_visible, scene, sit.my_heading,
                                      sit.ally_pressure, top_speed, c2.turn, c2.speed) } }) :
                  c2 \in { _self_preserving_command(scene, sit.my_heading, c1.turn, c1.speed,
                                                    max_heading, top_speed) } }) :
           c1 \in { AllyYield(SteerBranch(sit, top_speed), sit, top_speed) } })

\* ----------------------------------------------------------------------
\* SpecDrive: calls of get_action, seen through its steering logic, and
\* calls of MotionDriver.drive_path on a driver whose path was just set.
\* ----------------------------------------------------------------------

EmptyPath == [empty |-> TRUE, diff |-> 0, dangerous |-> FALSE, safe_neighbor |-> None]

\* a tick on which nothing is seen: no hazard, no escape, nobody in the way,
\* the next checkpoint straight ahead
CalmSit ==
    [ live_hazard_now |-> FALSE, standing_on_danger |-> FALSE,
      consecutive_danger_ticks |-> 0, escape_ticks |-> 0, escape_diff |-> 0,
      safe_patch |-> None, obstacle_avoid |-> None, push_cell |-> Some(18000),
      path |-> EmptyPath, unblock_ticks |-> 0,
      enemy_blocking_front |-> FALSE, ally_blocking_front |-> FALSE,
      enemies_visible |-> FALSE, enemy_in_range |-> None, closest_enemy |-> None,
      checkpoint |-> Some([diff |-> 0, ally_on_goal |-> FALSE]),
      ally_pressure |-> 0, my_heading |-> 0 ]

\* paths as drive_path meets them: none, path[0] ahead and clear, path[0]
\* to the left and dangerous with the safe neighbour behind
SitPaths ==
    { EmptyPath,
      [empty |-> FALSE, diff |-> 0, dangerous |-> FALSE, safe_neighbor |-> None],
      [empty |-> FALSE, diff |-> 9000, dangerous |-> TRUE, safe_neighbor |-> Some(18000)] }

\* what is in the way: nothing, something that is no ally, an ally in the
\* lane ahead (which _reactive_obstacle_avoidance then reports too: an ally
\* within 14 units and 24 degrees is within its 18 units and 45 degrees)
SitBlocks ==
    { [obstacle_avoid |-> None, ally_blocking_front |-> FALSE],
      [obstacle_avoid |-> Some(1000), ally_blocking_front |-> FALSE],
      [obstacle_avoid |-> Some(-500), ally_blocking_front |-> TRUE] }

\* ticks on a live hazard: standing_on_danger holds and start_escape ran
PanicSits ==
    { [ live_hazard_now |-> TRUE, standing_on_danger |-> TRUE,
        consecutive_danger_ticks |-> 1, escape_ticks |-> 45,
        safe_patch |-> sp, enemies_visible |-> ev,
        closest_enemy |-> IF ev THEN Some(7000) ELSE None ] @@ blk @@ CalmSit :
      sp \in {None, Some([dist |-> 2000, diff |-> 9000])},
      blk \in SitBlocks, ev \in BOOLEAN }

\* ticks of an escape off a live hazard: on remembered danger for 8 or 26
\* ticks in a row, or on ground held safe
EscapeSits ==
    { [ escape_ticks |-> 45, path |-> p, enemies_visible |-> ev,
        closest_enemy |-> IF ev THEN Some(7000) ELSE None ] @@ blk @@ CalmSit :
      p \in SitPaths, blk \in SitBlocks, ev \in BOOLEAN }
    \cup
    { [ escape_ticks |-> 45, standing_on_danger |-> TRUE,
        consecutive_danger_ticks |-> ticks, path |-> p,
        safe_patch |-> sp ] @@ blk @@ CalmSit :
      ticks \in {8, 26}, p \in SitPaths \ {EmptyPath},
      sp \in {None, Some([dist |-> 2000, diff |-> 9000])}, blk \in SitBlocks }

\* ticks of the combat branch in unblock mode: started on this tick (12) or
\* running (3), with or without a tank still in the lane
UnblockSits ==
    { [ unblock_ticks |-> u, enemy_blocking_front |-> eb, enemies_visible |-> eb,
        closest_enemy |-> IF eb THEN Some(0) ELSE None,
        obstacle_avoid |-> IF eb \/ ab THEN Some(0) ELSE None,
        ally_blocking_front |-> ab ] @@ CalmSit :
      u \in {12, 3}, eb \in BOOLEAN, ab \in BOOLEAN }

\* ticks of the combat branch steering around something
AvoidSits ==
    { [enemies_visible |-> ev, closest_enemy |-> IF ev THEN Some(7000) ELSE None]
        @@ blk @@ CalmSit :
      blk \in SitBlocks \ {[obstacle_avoid |-> None, ally_blocking_front |-> FALSE]},
      ev \in BOOLEAN }

\* ticks of the combat branch with an enemy in or out of firing range
EnemySits ==
    { [ enemies_visible |-> TRUE, enemy_in_range |-> IF in_range THEN Some(diff) ELSE None,
        closest_enemy |-> Some(diff), path |-> p ] @@ CalmSit :
      diff \in {0, 9000}, in_range \in BOOLEAN, p \in SitPaths }

\* ticks of the combat branch heading for a checkpoint
CheckpointSits ==
    { [ checkpoint |-> Some([diff |-> diff, ally_on_goal |-> ag]), path |-> p,
        ally_pressure |-> ap ] @@ CalmSit :
      diff \in {0, 9000}, ag \in BOOLEAN, p \in SitPaths, ap \in {0, 30} }

SteerSits ==
    PanicSits \cup EscapeSits \cup UnblockSits \cup AvoidSits \cup EnemySits
      \cup CheckpointSits

\* what _movement_risk_score reads: nothing around, risky cells all around,
\* an obstacle 6 units away at 50 degrees, an obstacle 15 units straight
\* ahead (which _reactive_obstacle_avoidance reports too)
SteerScenes ==
    { [cells |-> 0, obstacle |-> None, terrain |-> None, reported |-> FALSE],
      [cells |-> 2000000, obstacle |-> None, terrain |-> None, reported |-> FALSE],
      [cells |-> 0, obstacle |-> Some([dist |-> 600, bearing |-> 5000]), terrain |-> None,
       reported |-> FALSE],
      [cells |-> 0, obstacle |-> Some([dist |-> 1500, bearing |-> 0]), terrain |-> None,
       reported |-> TRUE] }

\* _top_speed of the status: missing (3.0 by default), 0.5 and 2.0
SteerTopSpeeds == {None, Some(5000), Some(20000)}

\* agent.py:48-50
StabilizerState ==
    [last_turn_cmd |-> 0, last_turn_flip_tick |-> -9999, last_mode |-> "idle"]

DriveInit ==
    /\ world = WorldModel
    /\ driver = MotionDriver
    /\ agent = StabilizerState @@ SmartAgent
    /\ last = NoOp
    /\ ghost = [calls |-> 0]

MaxSteers == 1

\* one get_action call
SteerTick ==
    /\ ghost.calls < MaxSteers
    /\ \E sit \in SteerSits, scene \in SteerScenes, top \in SteerTopSpeeds :
          /\ scene.reported => sit.obstacle_avoid # None
          /\ \E top_speed \in { LimitOrDefault(top, 30000) } :
            \E r \in { Steer(agent, ghost.calls + 1, sit, scene, top_speed,
                             LimitOrDefault(None, 3000)) } :
               /\ last' = [ op |-> "get_action", sit |-> sit, scene |-> scene,
                            top_speed |-> top_speed, mode |-> r.mode,
                            command |-> r.command ]
               /\ agent' = r.agent
               /\ driver' = [driver EXCEPT !.last_move_cmd = r.command.move_speed]
    /\ ghost' = [ghost EXCEPT !.calls = @ + 1]
    /\ UNCHANGED world

\* the tank of the drive_path calls: in the middle of cell (5, 5)
DriveCell == <<5, 5>>

\* the heading error to the centre of a cell, in hundredths
CellDiff(my_x, my_y, my_heading, cell) ==
    100 * normalize_angle_diff(
              heading_to_angle_deg(my_x, my_y, to_world_center(cell)[1],
                                   to_world_center(cell)[2]),
              my_heading)

\* driver.py:64-98 drive_path on a driver whose path is path: what it
\* returns, the cell best_immediate_safe_neighbor returned (None when it
\* returned None or was not called), and the turn driver.py:78-88 gives for
\* steering straight at path[0]
DrivePathCall(w, path, my_x, my_y, my_heading, top_speed) ==
    IF path = <<>>
    THEN [ command |-> drive_path_command(EmptyPath, top_speed), dangerous |-> FALSE,
           safe_neighbor |-> None, straight_turn |-> 0 ]
    ELSE \* best_immediate_safe_neighbor is called for a dangerous path[0] only
         Only({ [ command |-> drive_path_command(
                                  [ empty |-> FALSE,
                                    diff |-> CellDiff(my_x, my_y, my_heading, path[1]),
                                    dangerous |-> is_dangerous_cell(w, path[1]),
                                    safe_neighbor |->
                                        IF n = None THEN None
                                        ELSE Some(CellDiff(my_x, my_y, my_heading, n[1])) ],
                                  top_speed),
                  dangerous |-> is_dangerous_cell(w, path[1]),
                  safe_neighbor |-> n,
                  straight_turn |-> drive_path_steer(
                                        CellDiff(my_x, my_y, my_heading, path[1]),
                                        top_speed).turn ] :
                n \in { IF is_dangerous_cell(w, path[1])
                        THEN best_immediate_safe_neighbor(w, to_cell(my_x, my_y), FALSE).best
                        ELSE None } })

\* the driver's path is set and drive_path is called
DrivePath ==
    \E path \in {<<>>} \cup { <<neighbors4(DriveCell)[k]>> : k \in 1..4 },
       my_heading \in {0, 90, 180, 270} :
       \E xy \in { to_world_center(DriveCell) } :
       \E r \in { DrivePathCall(world, path, xy[1], xy[2], my_heading, 30000) } :
          /\ last' = [ op |-> "drive_path", path |-> path, my_heading |-> my_heading,
                       dangerous |-> r.dangerous, safe_neighbor |-> r.safe_neighbor,
                       straight_turn |-> r.straight_turn,
                       turn |-> r.command.turn, speed |-> r.command.speed ]
          /\ driver' = [driver EXCEPT !.path = path]
          /\ world' = drive_path(driver', world, xy[1], xy[2])
          /\ UNCHANGED <<agent, ghost>>

DriveNext == SteerTick \/ DrivePath

SpecDrive == DriveInit /\ [][DriveNext]_vars

\* C21: every command get_action returns has a move_speed other than zero,
\* and drive_path on an empty path returns a zero turn and a speed above zero
C21_NeverStandsStill ==
    /\ last.op = "get_action" => last.command.move_speed # 0
    /\ (last.op = "drive_path" /\ last.path = <<>>) => (last.turn = 0 /\ last.speed > 0)

\* a tick with no path, nothing seen and nothing in the way has been served
C21_Witness ==
    /\ last.op = "get_action"
    /\ last.sit.path.empty /\ ~last.sit.enemies_visible
    /\ last.sit.obstacle_avoid = None /\ last.sit.escape_ticks = 0
    /\ last.command.move_speed > 0

\* C28: a get_action call on a live hazard returns a move_speed of at least
\* 0.9 * top_speed
C28_FastOnLiveHazard ==
    (last.op = "get_action" /\ last.sit.live_hazard_now)
    => 10 * last.command.move_speed >= 9 * last.top_speed

\* on a live hazard the steering logic had settled on less than the floor
\* and the command carries the floor
C28_Witness ==
    /\ last.op = "get_action" /\ last.sit.live_hazard_now
    /\ last.command.move_speed = Pct(92, last.top_speed)
    /\ last.command.move_speed < last.top_speed

\* C29: a get_action call with an ally in the lane ahead and no live hazard
\* returns a move_speed of at most 0.65 * top_speed
C29_SlowBehindAlly ==
    (last.op = "get_action" /\ last.sit.ally_blocking_front /\ ~last.sit.live_hazard_now)
    => 100 * last.command.move_speed <= 65 * last.top_speed

\* behind an ally the command carries the yield speed 0.52 * top_speed
C29_Witness ==
    /\ last.op = "get_action"
    /\ last.sit.ally_blocking_front /\ ~last.sit.live_hazard_now
    /\ last.command.move_speed = Pct(52, last.top_speed)

\* ----------------------------------------------------------------------
\* SpecDrivePath: the cells around the tank gather danger evidence and
\* dead-end marks as get_action leaves them (agent.py:836-842), and
\* drive_path is called on a path into one of them.
\* ----------------------------------------------------------------------

MaxDangerMarks == 1

\* agent.py:836: get_state(cell).danger += 2.0
DriveDanger ==
    /\ \E k \in 1..4 :
          \E cell \in { neighbors4(DriveCell)[k] } :
             /\ Get(world.cell_states, cell, CellState).danger < 200 * MaxDangerMarks
             /\ world' = add_evidence(world, cell, 0, 200, 0)
    /\ last' = [op |-> "danger"]
    /\ UNCHANGED <<driver, agent, ghost>>

\* agent.py:839: mark_dead_end(cell, ttl=460.0)
DriveDeadEnd ==
    /\ \E k \in 1..4 :
          \E cell \in { neighbors4(DriveCell)[k] } :
             /\ cell \notin DOMAIN world.dead_end_ttl
             /\ world' = mark_dead_end(world, cell, 920)
    /\ last' = [op |-> "dead_end"]
    /\ UNCHANGED <<driver, agent, ghost>>

DrivePathNext == DriveDanger \/ DriveDeadEnd \/ DrivePath

SpecDrivePath == DriveInit /\ [][DrivePathNext]_vars

\* C22: whenever the world holds path[0] dangerous, the turn drive_path
\* returns differs from the turn for steering straight at path[0]
C22_DangerousCellAvoided ==
    (last.op = "drive_path" /\ last.dangerous) => last.turn # last.straight_turn

\* ----------------------------------------------------------------------
\* SpecPair: two allied tanks, each with its own SmartAgent, stand in one
\* lane 10 units apart and face each other: tank 1 in the middle of cell
\* (4, 4) heading east, tank 2 in the middle of cell (5, 4) heading west.
\* Neither gets anywhere; on every tick both agents are asked for a
\* command.  A tank may lose 5 hit points on a late tick.  world, driver
\* and agent hold one entry per tank.
\* ----------------------------------------------------------------------

MaxPairTick == 13

PairPose == << [x |-> 4500, y |-> 4500, heading |-> 0],
               [x |-> 5500, y |-> 4500, heading |-> 180] >>

\* the cells _movement_risk_score looks up for each tank: 2.2, 4.2 and 6.8
\* units ahead, for every turn it tries
PairRiskCells == << {<<4, 4>>, <<5, 4>>}, {<<5, 4>>, <<4, 4>>} >>

\* the steering logic's view of a tick that get_action has served as st:
\* the other tank is seen straight ahead, within the reach of
\* _ally_blocking_front and of _reactive_obstacle_avoidance, and no terrain
\* and no enemy is seen
PairSit(st) ==
    [ unblock_ticks |-> IF st.unblocking THEN st.d.unblock_ticks + 1 ELSE 0,
      escape_ticks |-> IF st.mode = "escape" THEN st.chosen_ticks ELSE 0,
      standing_on_danger |-> st.a.consecutive_danger_ticks > 0,
      consecutive_danger_ticks |-> st.a.consecutive_danger_ticks,
      path |-> IF st.d.path = <<>> THEN EmptyPath
               ELSE [empty |-> FALSE, diff |-> 0, dangerous |-> FALSE,
                     safe_neighbor |-> None],
      obstacle_avoid |-> Some(0), ally_blocking_front |-> TRUE ] @@ CalmSit

\* speeds are kept in hundredths by the driver model and compared with whole
\* hundredths only (last_move_cmd > 0.2, > 0.4): rounding up keeps every
\* such comparison
SpeedInHundredths(speed) == 0 - ((0 - speed) \div 100)

\* one get_action call of tank i
PairCall(i, hp, current_tick, scene) ==
    LET other == 3 - i
        status == [Status(PairPose[i].x, PairPose[i].y, PairPose[i].heading, hp)
                     EXCEPT !.id = ghost.id[i]]
        sensor == Sensor(<<Tank(PairPose[other].x, PairPose[other].y,
                                PairPose[other].heading, 1, ghost.id[other])>>,
                         <<>>, <<>>)
    IN Only({ Only({ [ w |-> st.w,
                       d |-> [st.d EXCEPT !.last_move_cmd =
                                 SpeedInHundredths(r.command.move_speed)],
                       a |-> [st.a EXCEPT !.last_turn_cmd = r.agent.last_turn_cmd,
                                          !.last_turn_flip_tick = r.agent.last_turn_flip_tick,
                                          !.last_mode = r.agent.last_mode],
                       rec |-> [ id |-> ghost.id[i], hp |-> hp,
                                 stuck_triggered |-> st.stuck_triggered,
                                 branch |-> st.mode, mode |-> r.mode,
                                 unblocking |-> st.unblocking,
                                 unblock_ticks |-> st.d.unblock_ticks,
                                 top_speed |-> 30000,
                                 move_speed |-> r.command.move_speed ] ] :
                     r \in { Steer(st.a, current_tick, PairSit(st), scene, 30000,
                                   LimitOrDefault(None, 3000)) } }) :
              st \in { get_action(world[i], driver[i], agent[i], current_tick, status,
                                  sensor, 150, PairRiskCells[i], 0) } })

PairInit ==
    /\ world = <<WorldModel, WorldModel>>
    /\ driver = <<MotionDriver, MotionDriver>>
    /\ agent = <<StabilizerState @@ SmartAgent, StabilizerState @@ SmartAgent>>
    /\ last = NoOp
    /\ ghost \in { [tick |-> 0, id |-> ids, hp |-> <<100, 100>>] : ids \in {<<1, 2>>, <<2, 1>>} }

MinLossTick == 9

\* the hit points a status may report: what it reported last, or from tick
\* MinLossTick on 5 less than the full 100
PairHp(i) == {ghost.hp[i]} \cup (IF ghost.tick >= MinLossTick THEN {95} ELSE {})

\* one tick: both agents are asked
PairTick ==
    /\ ghost.tick < MaxPairTick
    /\ \E hp1 \in PairHp(1), hp2 \in PairHp(2), scene \in SteerScenes :
          /\ scene.obstacle = None /\ scene.terrain = None
          /\ \E r1 \in { PairCall(1, hp1, ghost.tick, scene) },
                r2 \in { PairCall(2, hp2, ghost.tick, scene) } :
                /\ world' = <<r1.w, r2.w>>
                /\ driver' = <<r1.d, r2.d>>
                /\ agent' = <<r1.a, r2.a>>
                /\ last' = [op |-> "pair", tank |-> <<r1.rec, r2.rec>>]
                /\ ghost' = [ghost EXCEPT !.tick = @ + 1, !.hp = <<hp1, hp2>>]

PairNext == PairTick

SpecPair == PairInit /\ [][PairNext]_vars

\* the tank whose id is the lower one, and the other
LowerId == IF ghost.id[1] < ghost.id[2] THEN 1 ELSE 2

HigherId == 3 - LowerId

\* C23 as stated: on the tick on which the stuck detector triggers for the
\* tank of the lower id, that tank is in unblock mode and commands a speed
\* of at most -0.5 * top_speed, and the tank of the higher id is never in
\* unblock mode
C23_LowerIdUnblocks ==
    last.op = "pair" =>
        /\ last.tank[LowerId].stuck_triggered =>
              /\ last.tank[LowerId].unblocking
              /\ last.tank[LowerId].move_speed <= 0 - Pct(50, last.tank[LowerId].top_speed)
        /\ ~last.tank[HigherId].unblocking
        /\ last.tank[HigherId].unblock_ticks = 0

\* C23 amended: the same for ticks on which the tank of the lower id is
\* neither on a live hazard nor escaping
C23_LowerIdUnblocksUnlessEscaping ==
    last.op = "pair" =>
        /\ (last.tank[LowerId].stuck_triggered /\ last.tank[LowerId].branch = "combat") =>
              /\ last.tank[LowerId].unblocking
              /\ last.tank[LowerId].mode = "unblock"
              /\ last.tank[LowerId].move_speed <= 0 - Pct(50, last.tank[LowerId].top_speed)
        /\ ~last.tank[HigherId].unblocking
        /\ last.tank[HigherId].unblock_ticks = 0

\* the stuck detector has triggered for both tanks on one tick, and only the
\* tank of the lower id backs off
C23_Witness ==
    /\ last.op = "pair"
    /\ last.tank[LowerId].stuck_triggered /\ last.tank[HigherId].stuck_triggered
    /\ last.tank[LowerId].unblocking /\ last.tank[LowerId].move_speed < 0
    /\ ~last.tank[HigherId].unblocking

\* ======================================================================
\* SpecBreak: one agent called tick after tick at one position next to
\* the third checkpoint, shown calm ground, a hazard under its tracks, a
\* loss of hit points, and enemies in and out of firing range.
\* ======================================================================

MaxBreakTick == 3

BreakPosition == <<2400, 9500>>

BreakStatus(hp) == Status(BreakPosition[1], BreakPosition[2], 0, hp)

\* what the sensor shows in SpecBreak
BreakSeen ==
    [ Grass        |-> Terrain(3400, 9500, 0, "grass"),
      Water        |-> Terrain(2400, 9500, 1, "water"),
      EnemyAhead   |-> Tank(7500, 9500, 180, 2, 3),
      EnemyAside   |-> Tank(2400, 15500, 270, 2, 4),
      EnemyInRange |-> Tank(2400, 12500, 270, 2, 5),
      EnemyClose   |-> Tank(3600, 9500, 180, 2, 6) ]

BreakInput(hp, tanks, terrains) ==
    Input(BreakStatus(hp), Sensor(tanks, <<>>, terrains), 135, {<<2, 9>>}, 300)

BreakInputs ==
    { BreakInput(100, <<>>, <<BreakSeen.Grass>>),
      BreakInput(100, <<>>, <<BreakSeen.Water>>),
      BreakInput(90, <<>>, <<BreakSeen.Grass>>),
      BreakInput(90, <<BreakSeen.EnemyAhead>>, <<BreakSeen.Grass>>),
      BreakInput(90, <<BreakSeen.EnemyAside, BreakSeen.EnemyAhead>>, <<BreakSeen.Grass>>),
      BreakInput(90, <<BreakSeen.EnemyInRange>>, <<BreakSeen.Grass>>),
      BreakInput(90, <<BreakSeen.EnemyClose>>, <<BreakSeen.Grass>>),
      BreakInput(40, <<BreakSeen.EnemyAhead>>, <<BreakSeen.Grass>>),
      BreakInput(90, <<BreakSeen.EnemyAhead>>, <<BreakSeen.Water>>) }

\* what a get_action call of SpecBreak leaves in last: the escape state and
\* the goal before and after the call, and what the call saw and did
BreakRecord(in, st) ==
    LET enemies == SelectSeq(in.sensor.seen_tanks, LAMBDA t : t.team # in.status.team)
        closest == _closest_enemy(in.status.position[1], in.status.position[2], enemies)
    IN [ op |-> "get_action",
         was_escaping    |-> driver.escape_ticks > 0,
         goal_before     |-> agent.current_goal,
         path_before     |-> driver.path,
         enemies_visible |-> Len(enemies) > 0,
         enemy_in_range  |-> _enemy_in_firing_range(in.status.position[1],
                                                    in.status.position[2],
                                                    enemies, get_firing_range) # None,
         closest_cell    |-> IF closest = None THEN None
                             ELSE Some(to_cell(closest[1].pos[1], closest[1].pos[2])),
         hp              |-> in.status.hp,
         branch          |-> st.mode,
         avoid           |-> st.avoid,
         unblocking      |-> st.unblocking,
         broke_off       |-> st.broke_off,
         escape_ticks    |-> st.d.escape_ticks,
         escape_heading  |-> st.d.escape_heading,
         current_goal    |-> st.a.current_goal ]

BreakInit ==
    /\ world = WorldModel
    /\ driver = MotionDriver
    /\ agent = SmartAgent
    /\ last = NoOp
    /\ ghost = [tick |-> 0]

\* one get_action call
BreakTick ==
    /\ ghost.tick < MaxBreakTick
    /\ \E in \in BreakInputs :
         \E st \in {get_action(world, driver, agent, ghost.tick, in.status, in.sensor,
                               in.turn, in.risk_cells, in.speed)} :
            /\ world' = st.w
            /\ driver' = st.d
            /\ agent' = st.a
            /\ last' = BreakRecord(in, st)
            /\ ghost' = [ghost EXCEPT !.tick = @ + 1]

BreakNext == BreakTick

SpecBreak == BreakInit /\ [][BreakNext]_vars

\* C24: a get_action call that starts with escape mode on, sees an enemy,
\* is not on a live hazard and has hp_ratio >= 0.52 returns with
\* escape_ticks = 0 and escape_heading = None
C24_EscapeBrokenOff ==
    ( /\ last.op = "get_action"
      /\ last.was_escaping
      /\ last.enemies_visible
      /\ last.branch # "panic"
      /\ last.hp >= 52 )
    => (last.escape_ticks = 0 /\ last.escape_heading = None)

\* an escaping agent has seen an enemy away from any hazard and has left
\* escape mode
C24_Witness ==
    /\ last.op = "get_action"
    /\ last.was_escaping /\ last.enemies_visible /\ last.branch = "combat"
    /\ last.hp >= 52 /\ last.broke_off
    /\ last.escape_ticks = 0

\* C25: after a call that broke escape mode off, current_goal is a goal
\* whose mode starts with "attack"
C25_AttackGoalAfterBreakOff ==
    (last.op = "get_action" /\ last.broke_off)
    => (last.current_goal # None /\ StartsWith(last.current_goal[1].mode, "attack"))

\* C26: after a call that sees an enemy, none in firing range, and is not
\* on a hazard, escaping, unblocking or avoiding an obstacle, current_goal is
\* the cell of the closest enemy with mode "intercept_enemy"
C26_InterceptGoal ==
    ( /\ last.op = "get_action"
      /\ last.enemies_visible /\ ~last.enemy_in_range
      /\ last.branch = "combat" /\ ~last.unblocking /\ ~last.avoid )
    => /\ last.current_goal # None
       /\ last.current_goal[1].mode = "intercept_enemy"
       /\ Some(last.current_goal[1].cell) = last.closest_cell

\* ======================================================================
\* The turret: fuzzy_turret.py and agent.py:1048-1090
\* ======================================================================

VisionRange == 10000

\* FuzzyTurretController._should_fire_fuzzy: the answers it can give.  The
\* error is in whole degrees, distances in hundredths.  A rule is active when
\* all its memberships are positive.  The centroid of the clipped "yes" set
\* lies in (0.6, 1], that of "maybe" and "no" sets below 0.6; with "yes" and
\* other rules active together both answers are kept, and with no rule active
\* the defuzzification raises and the except branch answers.
_should_fire_fuzzy(cooldown_ticks, angle_error, distance, is_damaged, vision_range) ==
    LET e == Min(Abs(angle_error), 10)
        perfect    == e < 2
        good       == 2 * e > 3 /\ e < 4
        acceptable == e > 3 /\ e < 7
        poor       == e > 6
        d == Min(distance, Max(Pct(150, vision_range), 3000))
        optimal    == d > 0 /\ d < Pct(70, vision_range)
        suboptimal == d > Pct(56, vision_range) /\ d < Pct(120, vision_range)
        extreme    == d > vision_range
        v == Min(100, (IF is_damaged THEN 90 ELSE 50)
                      + (IF distance < Pct(30, vision_range) THEN 20 ELSE 0))
        resilient  == v < 40
        normal     == v > 30 /\ v < 70
        vulnerable == v > 60
        yes   == \/ perfect /\ (optimal \/ suboptimal)
                 \/ good /\ optimal
                 \/ acceptable /\ optimal /\ vulnerable
        maybe == \/ perfect /\ extreme
                 \/ good /\ suboptimal
                 \/ acceptable /\ optimal /\ (normal \/ resilient)
                 \/ acceptable /\ suboptimal
        no    == \/ (good \/ acceptable) /\ extreme
                 \/ poor
    IN IF cooldown_ticks > 0 THEN {FALSE}
       ELSE IF ~yes /\ ~maybe /\ ~no THEN {2 * Abs(angle_error) <= 5}
       ELSE IF yes /\ ~maybe /\ ~no THEN {TRUE}
       ELSE IF ~yes THEN {FALSE}
       ELSE BOOLEAN

\* FuzzyTurretController.update: the cooldown it leaves and its should_fire.
\* The target is an enemy if one is seen (any of them, when there are
\* several), else the closest destructible obstacle.
TurretUpdate(cooldown_ticks, my_x, my_y, my_heading, barrel_angle, enemies, trees, vision_range) ==
    LET cd == IF cooldown_ticks > 0 THEN cooldown_ticks - 1 ELSE cooldown_ticks
        destructible == SelectSeq(trees, LAMBDA o : o.is_destructible)
        dist(o) == Dist2(my_x, my_y, o.pos[1], o.pos[2])
        targets ==
            IF enemies # <<>>
            THEN {[pos |-> enemies[i].pos, is_damaged |-> enemies[i].is_damaged] :
                     i \in 1..Len(enemies)}
            ELSE IF destructible # <<>>
            THEN {[pos |-> destructible[
                       CHOOSE i \in 1..Len(destructible) :
                          \A j \in 1..Len(destructible) :
                             dist(destructible[i]) < dist(destructible[j])
                             \/ (dist(destructible[i]) = dist(destructible[j]) /\ i <= j)].pos,
                    is_damaged |-> FALSE]}
            ELSE {}
    IN IF targets = {} THEN {[cooldown_ticks |-> cd, should_fire |-> FALSE]}
       ELSE UNION {
              LET angle_error ==
                      normalize_angle_diff(
                          normalize_angle_diff(
                              heading_to_angle_deg(my_x, my_y, t.pos[1], t.pos[2]),
                              my_heading),
                          barrel_angle)
              IN { [cooldown_ticks |-> IF f THEN 10 ELSE cd, should_fire |-> f] :
                   f \in _should_fire_fuzzy(cd, angle_error,
                                            AxisDist(my_x, my_y, t.pos[1], t.pos[2]),
                                            t.is_damaged, vision_range) } :
              t \in targets }

\* SmartAgent._closest_destructible_obstacle with max_dist = firing_range
_closest_destructible_obstacle(my_x, my_y, trees, max_dist) ==
    LET near == SelectSeq(trees, LAMBDA o : /\ o.is_destructible
                                             /\ DistLeq(my_x, my_y, o.pos[1], o.pos[2],
                                                        max_dist))
        dist(o) == Dist2(my_x, my_y, o.pos[1], o.pos[2])
    IN IF near = <<>> THEN None
       ELSE Some(near[CHOOSE i \in 1..Len(near) :
                         \A j \in 1..Len(near) :
                            dist(near[i]) < dist(near[j])
                            \/ (dist(near[i]) = dist(near[j]) /\ i <= j)])

\* a decision that passes the turret's answer on as it is
FireDecision_turret_decides(st, my_x, my_y, my_heading, barrel_angle, enemies, trees, turret_fire) ==
    turret_fire

\* agent.py:1061-1090: should_fire of the command, from the turret's answer.
\* st is the tick's state after its movement branch.  The tank has LIGHT
\* ammunition loaded or none, so the firing range is get_firing_range and
\* the LONG_DISTANCE alignment rule (1087-1090) does not apply.
FireDecision(st, my_x, my_y, my_heading, barrel_angle, enemies, trees, turret_fire) ==
    LET enemy_in_range ==
            _enemy_in_firing_range(my_x, my_y, enemies, get_firing_range) # None
        destructible ==
            _closest_destructible_obstacle(my_x, my_y, trees, get_firing_range)
        clear_path_needed ==
            \/ st.avoid
            \/ st.stuck_triggered
            \/ /\ destructible # None
               /\ Dist2(my_x, my_y, destructible[1].pos[1], destructible[1].pos[2])
                     < 3500 * 3500
               /\ Len(trees) >= 1
               /\ \E i \in 1..Min(4, Len(st.d.path)) :
                     st.d.path[i] = to_cell(destructible[1].pos[1], destructible[1].pos[2])
    IN IF ~enemy_in_range /\ destructible # None /\ clear_path_needed
       THEN Abs(normalize_angle_diff(
                    normalize_angle_diff(
                        heading_to_angle_deg(my_x, my_y, destructible[1].pos[1],
                                             destructible[1].pos[2]),
                        my_heading),
                    barrel_angle)) <= 4
       ELSE IF ~enemy_in_range THEN FALSE
       ELSE turret_fire

\* ======================================================================
\* SpecFire: one agent, fresh or put on an explore route as
\* test_agent_explore_no_fire.py does, called tick after tick at (50, 50)
\* with enemies and a tree in sight and the barrel at several angles.
\* ======================================================================

MaxFireTick == 3

FirePosition == <<5000, 5000>>

FireTank(x, y, is_damaged) == Tank(x, y, 180, 2, 3) @@ [is_damaged |-> is_damaged]

FireInput(tanks, trees, barrel_angle) ==
    Input(Status(FirePosition[1], FirePosition[2], 0, 80),
          Sensor(tanks, [i \in 1..Len(trees) |-> trees[i].pos], <<>>),
          135, {<<5, 5>>}, 300)
        @@ [trees |-> trees, barrel_angle |-> barrel_angle]

FireInputs ==
    { FireInput(<<FireTank(6000, 5000, FALSE)>>, <<>>, 0),
      FireInput(<<FireTank(6000, 5000, FALSE)>>, <<>>, 90),
      FireInput(<<FireTank(6000, 5000, TRUE)>>, <<>>, 3),
      FireInput(<<FireTank(5000, 8000, FALSE)>>, <<>>, 90),
      FireInput(<<FireTank(11000, 5000, FALSE)>>, <<>>, 0),
      FireInput(<<FireTank(5700, 5000, FALSE)>>, <<>>, 0),
      FireInput(<<>>, <<>>, 0),
      FireInput(<<>>, <<[pos |-> <<6000, 5000>>, is_destructible |-> TRUE]>>, 0) }

\* the agent after SmartAgent(), and after the test has put it on an explore
\* route (test_agent_explore_no_fire.py:17-21)
FireAgents ==
    { [cooldown_ticks |-> 0] @@ SmartAgent,
      [cooldown_ticks |-> 0] @@
          [SmartAgent EXCEPT !.current_goal = Some(Goal(<<5, 5>>, "explore")),
                             !.route_commit_until = 999999,
                             !.route_commit_mode = "explore"] }

FireInit ==
    /\ world = WorldModel
    /\ agent \in FireAgents
    /\ driver = [MotionDriver EXCEPT
                    !.path = IF agent.route_commit_mode = "explore"
                             THEN << <<5, 5>> >> ELSE <<>>]
    /\ last = NoOp
    /\ ghost = [tick |-> 0]

\* one get_action call
FireTick ==
    /\ ghost.tick < MaxFireTick
    /\ \E in \in FireInputs :
         \E st \in {get_action(world, driver, agent, ghost.tick, in.status, in.sensor,
                               in.turn, in.risk_cells, in.speed)} :
           \E t \in TurretUpdate(agent.cooldown_ticks, FirePosition[1], FirePosition[2],
                                 in.status.heading, in.barrel_angle,
                                 in.sensor.seen_tanks, in.trees, VisionRange) :
              /\ world' = st.w
              /\ driver' = st.d
              /\ agent' = [st.a EXCEPT !.cooldown_ticks = t.cooldown_ticks]
              /\ last' = [ op |-> "get_action",
                           explore_route |-> /\ agent.current_goal # None
                                             /\ agent.current_goal[1].mode = "explore"
                                             /\ agent.route_commit_mode = "explore"
                                             /\ driver.path # <<>>,
                           enemy_distance |->
                               IF in.sensor.seen_tanks = <<>> THEN None
                               ELSE Some(AxisDist(FirePosition[1], FirePosition[2],
                                                  in.sensor.seen_tanks[1].pos[1],
                                                  in.sensor.seen_tanks[1].pos[2])),
                           barrel_angle |-> in.barrel_angle,
                           heading |-> in.status.heading,
                           trees |-> in.trees,
                           turret_fire |-> t.should_fire,
                           should_fire |-> FireDecision(st, FirePosition[1], FirePosition[2],
                                                        in.status.heading, in.barrel_angle,
                                                        in.sensor.seen_tanks, in.trees,
                                                        t.should_fire) ]
              /\ ghost' = [ghost EXCEPT !.tick = @ + 1]

FireNext == FireTick

SpecFire == FireInit /\ [][FireNext]_vars

\* C27: a get_action call that starts on an explore route (goal of mode
\* "explore", route_commit_mode "explore", non-empty path) and sees an enemy
\* 10 units away or farther returns should_fire = FALSE
C27_NoFireWhileExploring ==
    ( /\ last.op = "get_action"
      /\ last.explore_route
      /\ last.enemy_distance # None
      /\ last.enemy_distance[1] >= 1000 )
    => ~last.should_fire

\* ======================================================================
\* The ammunition choice: agent.py:300-341 and its call at agent.py:810
\* ======================================================================

AmmoTypes == {"LIGHT", "HEAVY", "LONG_DISTANCE"}

\* agent.py:18
PRIMARY_AMMO == "LONG_DISTANCE"

\* str.upper() on the names a status carries
Upper(s) ==
    CASE s = "light" -> "LIGHT"
      [] s = "heavy" -> "HEAVY"
      [] s = "long_distance" -> "LONG_DISTANCE"
      [] OTHER -> s

\* agent.py:313-317: the names a status may give a stock under, in the order
\* they are tried
AmmoAliases ==
    [ LIGHT |-> <<"light_ammo", "_light_ammo", "ammo_light">>,
      HEAVY |-> <<"heavy_ammo", "_heavy_ammo", "ammo_heavy">>,
      LONG_DISTANCE |-> <<"long_distance_ammo", "_long_distance_ammo", "sniper_ammo",
                          "_sniper_ammo", "ammo_long_distance">> ]

\* SmartAgent._ammo_stocks.  status.fields maps the names present in the
\* status to their values; ammo_inventory is None or Some(dict)
_ammo_stocks(status) ==
    IF status.ammo_inventory # None
    THEN [key \in AmmoTypes |-> Get(status.ammo_inventory[1], key, 0)]
    ELSE [key \in AmmoTypes |->
            LET names == AmmoAliases[key]
                found == {i \in 1..Len(names) : names[i] \in DOMAIN status.fields}
            IN IF found = {} THEN 0
               ELSE status.fields[names[CHOOSE i \in found : \A j \in found : i <= j]]]

\* the choice that asks for the preferred type even when it is loaded
_choose_ammo_to_load_always_preferred(preferred_ammo, status, enemy_close) ==
    LET ammo_loaded == Upper(IF status.ammo_loaded = None THEN "" ELSE status.ammo_loaded[1])
        stocks == _ammo_stocks(status)
    IN IF stocks[preferred_ammo] > 0 THEN Some(preferred_ammo)
       ELSE IF enemy_close /\ stocks["LIGHT"] > 0 /\ ammo_loaded # "LIGHT" THEN Some("LIGHT")
       ELSE IF enemy_close /\ stocks["HEAVY"] > 0 /\ ammo_loaded # "HEAVY" THEN Some("HEAVY")
       ELSE None

\* SmartAgent._choose_ammo_to_load
_choose_ammo_to_load(preferred_ammo, status, enemy_close) ==
    LET ammo_loaded == Upper(IF status.ammo_loaded = None THEN "" ELSE status.ammo_loaded[1])
        stocks == _ammo_stocks(status)
    IN IF ammo_loaded = preferred_ammo THEN None
       ELSE IF stocks[preferred_ammo] > 0 THEN Some(preferred_ammo)
       ELSE IF enemy_close /\ stocks["LIGHT"] > 0 /\ ammo_loaded # "LIGHT" THEN Some("LIGHT")
       ELSE IF enemy_close /\ stocks["HEAVY"] > 0 /\ ammo_loaded # "HEAVY" THEN Some("HEAVY")
       ELSE None

\* ----------------------------------------------------------------------
\* SpecAmmo: get_action calls seen through the ammunition they ask for.
\* The tank holds 0..MaxStock rounds of each type, picks rounds up and spends
\* them, and reports them in one of the forms _ammo_stocks reads;
\* ammo_loaded is missing, empty, or a type in upper or lower case; the
\* closest enemy is missing or some way off.
\* ----------------------------------------------------------------------

MaxStock == 2

AmmoLoaded == {None, Some(""), Some("LIGHT"), Some("light"), Some("HEAVY"),
               Some("LONG_DISTANCE"), Some("long_distance")}

\* how a status reports the stocks held
AmmoStatus(held, form, loaded) ==
    [ ammo_loaded |-> loaded,
      ammo_inventory |->
          CASE form = "inventory" -> Some(held)
            [] form = "sparse" ->
                 Some([key \in {k \in AmmoTypes : held[k] > 0} |-> held[key]])
            [] OTHER -> None,
      fields |->
          CASE form = "fields" ->
                 ("light_ammo" :> held["LIGHT"]) @@ ("heavy_ammo" :> held["HEAVY"])
                   @@ ("long_distance_ammo" :> held["LONG_DISTANCE"])
            [] form = "sniper" ->
                 ("ammo_light" :> held["LIGHT"]) @@ ("_heavy_ammo" :> held["HEAVY"])
                   @@ ("sniper_ammo" :> held["LONG_DISTANCE"])
                   @@ ("ammo_long_distance" :> 0)
            [] OTHER -> EmptyMap ]

AmmoForms == {"inventory", "sparse", "fields", "sniper"}

\* distances of the closest enemy, in hundredths: none seen, 22.0, 30.0
AmmoEnemyDistances == {None, Some(2200), Some(3000)}

\* ghost is the tank as the engine holds it: the rounds held, the type
\* loaded as the status spells it, and the form of the status
AmmoInit ==
    /\ world = WorldModel
    /\ driver = MotionDriver
    /\ agent = [preferred_ammo |-> PRIMARY_AMMO] @@ SmartAgent
    /\ last = NoOp
    /\ ghost \in [held : {[key \in AmmoTypes |-> 0]}, loaded : {None}, form : AmmoForms]

\* the tank picks up a round
AmmoPickup ==
    /\ \E key \in AmmoTypes :
          /\ ghost.held[key] < MaxStock
          /\ ghost' = [ghost EXCEPT !.held[key] = @ + 1]
    /\ last' = NoOp
    /\ UNCHANGED <<world, driver, agent>>

\* the tank spends a round
AmmoSpend ==
    /\ \E key \in AmmoTypes :
          /\ ghost.held[key] > 0
          /\ ghost' = [ghost EXCEPT !.held[key] = @ - 1]
    /\ last' = NoOp
    /\ UNCHANGED <<world, driver, agent>>

\* the engine reports another type as loaded
AmmoReload ==
    /\ \E loaded \in AmmoLoaded \ {ghost.loaded} :
          ghost' = [ghost EXCEPT !.loaded = loaded]
    /\ last' = NoOp
    /\ UNCHANGED <<world, driver, agent>>

\* agent.py:808-810 and 1143: the ammo_to_load of one get_action call
AmmoTick ==
    /\ \E enemy_close \in AmmoEnemyDistances :
          last' = [ op |-> "get_action", held |-> ghost.held, form |-> ghost.form,
                    loaded |-> ghost.loaded, enemy_close |-> enemy_close,
                    ammo_to_load |->
                        _choose_ammo_to_load(
                            agent.preferred_ammo,
                            AmmoStatus(ghost.held, ghost.form, ghost.loaded),
                            enemy_close # None /\ enemy_close[1] <= 2200) ]
    /\ UNCHANGED <<world, driver, agent, ghost>>

AmmoNext ==
    \/ AmmoPickup
    \/ AmmoSpend
    \/ AmmoReload
    \/ AmmoTick

SpecAmmo == AmmoInit /\ [][AmmoNext]_vars

\* the type loaded when the call was made, "" for none
LoadedType == IF last.loaded = None THEN "" ELSE Upper(last.loaded[1])

\* C30: ammo_to_load is None or a type held in positive number that is not
\* the type loaded; it is the preferred type when that is held and not
\* loaded, and None when the preferred type is loaded
C30_AmmoToLoad ==
    last.op = "get_action" =>
        /\ last.ammo_to_load # None =>
              /\ last.ammo_to_load[1] \in AmmoTypes
              /\ last.held[last.ammo_to_load[1]] > 0
              /\ last.ammo_to_load[1] # LoadedType
        /\ (last.held[PRIMARY_AMMO] > 0 /\ LoadedType # PRIMARY_AMMO)
              => last.ammo_to_load = Some(PRIMARY_AMMO)
        /\ LoadedType = PRIMARY_AMMO => last.ammo_to_load = None

\* the preferred type was asked for with another type loaded, under the
\* alias names of the stocks
C30_Witness ==
    /\ last.op = "get_action"
    /\ last.form = "sniper" /\ last.loaded = Some("light")
    /\ last.held[PRIMARY_AMMO] > 0
    /\ last.ammo_to_load = Some(PRIMARY_AMMO)

\* ======================================================================
\* SpecBlocked: is_blocked_for_pathing on one cell of a WorldModel whose
\* evidence is drawn from a grid around the thresholds of both rules, as a
\* pothole cell and as an ordinary cell, before and after the cell is
\* marked a dead end.
\* ======================================================================

\* tests/test_agent_pothole_passable.py:16
BlockedCell == <<10, 10>>

\* the evidence values tried: each threshold of world_model.py:92-96, the
\* value just below it, the values of the test, and values beyond
BlockedInputs ==
    [ safes    |-> {0, 59, 60, 149, 150, 315},
      dangers  |-> {0, 399, 400, 550, 899, 900, 1200},
      blockeds |-> {0, 99, 100, 120, 249, 250, 400} ]

\* tests/test_agent_pothole_passable.py:14-20: the cell gets an entry, its
\* fields are set and it may be put among the pothole cells
BlockedInit ==
    /\ \E safe \in BlockedInputs.safes, danger \in BlockedInputs.dangers,
          blocked \in BlockedInputs.blockeds, pothole \in BOOLEAN :
          world = [add_evidence(WorldModel, BlockedCell, safe, danger, blocked)
                     EXCEPT !.pothole_cells = IF pothole THEN {BlockedCell} ELSE {}]
    /\ driver = MotionDriver
    /\ agent = SmartAgent
    /\ last = NoOp
    /\ ghost = EmptyMap

\* agent.py:835-842: the cell becomes a dead end
BlockedMarkDeadEnd ==
    /\ BlockedCell \notin DOMAIN world.dead_end_ttl
    /\ world' = mark_dead_end(world, BlockedCell, 1200)
    /\ last' = NoOp
    /\ UNCHANGED <<driver, agent, ghost>>

\* world_model.py:84-97: the cell is queried as it is, and again as a
\* pothole cell and as a cell that is no pothole cell
BlockedQuery ==
    /\ last = NoOp
    /\ last' = [op |-> "is_blocked_for_pathing",
                ret |-> is_blocked_for_pathing(world, BlockedCell),
                as_pothole |-> is_blocked_for_pathing(
                                   [world EXCEPT !.pothole_cells = {BlockedCell}],
                                   BlockedCell),
                as_ordinary |-> is_blocked_for_pathing(
                                    [world EXCEPT !.pothole_cells = {}], BlockedCell)]
    /\ UNCHANGED <<world, driver, agent, ghost>>

BlockedNext ==
    \/ BlockedMarkDeadEnd
    \/ BlockedQuery

SpecBlocked == BlockedInit /\ [][BlockedNext]_vars

\* C33: a pothole cell that is no dead end is not blocked for pathing at
\* danger 5.5 and blocked 1.2, values that block an ordinary cell; and for
\* every safe, danger and blocked a cell blocked under the pothole rule is
\* also blocked under the ordinary rule
C33_PotholeRuleIsLooser ==
    last.op = "is_blocked_for_pathing" =>
        /\ ( /\ BlockedCell \in world.pothole_cells
             /\ BlockedCell \notin DOMAIN world.dead_end_ttl
             /\ world.cell_states[BlockedCell].danger = 550
             /\ world.cell_states[BlockedCell].blocked = 120 )
           => (~last.ret /\ last.as_ordinary)
        /\ last.as_pothole => last.as_ordinary

\* the query of the test: a pothole cell of danger 5.5 and blocked 1.2
C33_Witness ==
    /\ last.op = "is_blocked_for_pathing"
    /\ BlockedCell \in world.pothole_cells
    /\ BlockedCell \notin DOMAIN world.dead_end_ttl
    /\ world.cell_states[BlockedCell].danger = 550
    /\ world.cell_states[BlockedCell].blocked = 120
    /\ ~last.ret

\* ======================================================================
\* SpecOccupancy: a WorldModel on which a tank is seen one cell east of the
\* start, heading east, as an ally or as an enemy.  Obstacles and favoured
\* cells shape the ground, the occupancy marks age with every decay, and
\* build_path is called once for the cell behind the tank.
\* ======================================================================

\* the call of tests/test_planner_avoids_enemy_cells.py:38-41, the tank's
\* cell between start and goal
OccInputs ==
    [ start  |-> <<0, 0>>,
      goal   |-> <<2, 0>>,
      radius |-> 2,
      tank   |-> Tank(1500, 500, 0, 2, 3) ]

\* the cells whose cost and blocking are compared
OccCells == {<<x, y>> : x \in -1..4, y \in -1..1}

\* the same world with no occupancy mark alive
Unoccupied(w) ==
    [w EXCEPT !.ally_occupancy_ttl = EmptyMap, !.enemy_occupancy_ttl = EmptyMap]

Occupied(w) == DOMAIN w.ally_occupancy_ttl \cup DOMAIN w.enemy_occupancy_ttl

\* agent.py:76-110: the tank is seen, as an ally or as an enemy
OccSeeTank ==
    /\ ghost.phase = "setup"
    /\ \E kind \in {"ally", "enemy"} :
         \E st \in {IF kind = "ally"
                    THEN _mark_allies_occupancy([w |-> world, tr |-> <<>>], 500, 500,
                                                <<OccInputs.tank>>)
                    ELSE _mark_enemy_occupancy([w |-> world, tr |-> <<>>], 500, 500,
                                               <<OccInputs.tank>>)} :
            /\ st.w # world
            /\ world' = st.w
    /\ UNCHANGED <<driver, agent, last, ghost>>

\* world_model.py:47-67: a tick passes
OccDecay ==
    /\ ghost.phase = "setup"
    /\ Occupied(world) # {}
    /\ world' = decay_dead_ends(world)
    /\ UNCHANGED <<driver, agent, last, ghost>>

\* planner.py:22-61: build_path to the cell behind the tank, and the same
\* call on the world without the occupancy marks
OccBuildPath ==
    /\ ghost.phase = "setup"
    /\ \E path \in {build_path(world, OccInputs.start, OccInputs.goal, OccInputs.radius)} :
         \E free_path \in {build_path(Unoccupied(world), OccInputs.start, OccInputs.goal,
                                      OccInputs.radius)} :
            last' = [op |-> "build_path", path |-> path, free_path |-> free_path]
    /\ ghost' = [ghost EXCEPT !.phase = "done"]
    /\ UNCHANGED <<world, driver, agent>>

OccNext ==
    \/ PlanObstacle
    \/ PlanFavour
    \/ OccSeeTank
    \/ OccDecay
    \/ OccBuildPath

SpecOccupancy == PlanInit /\ [][OccNext]_vars

\* C34: while an ally or enemy occupancy mark is alive on a cell the cell's
\* movement_cost is strictly above its cost without the mark; the marks
\* change the result of is_blocked_for_pathing for no cell; and build_path
\* returns a route to the cell behind the occupied one whenever it returns
\* one without the marks
C34_OccupancyIsSoft ==
    /\ \A c \in OccCells :
          /\ c \in Occupied(world)
                => movement_cost(world, c) > movement_cost(Unoccupied(world), c)
          /\ is_blocked_for_pathing(world, c) = is_blocked_for_pathing(Unoccupied(world), c)
    /\ last.op = "build_path" => (last.path = <<>> <=> last.free_path = <<>>)

\* a route is returned that goes over the occupied cell, whose cost without
\* the mark is the floor
C34_Witness ==
    /\ last.op = "build_path"
    /\ <<1, 0>> \in Occupied(world)
    /\ movement_cost(Unoccupied(world), <<1, 0>>) = 35000
    /\ \E i \in 1..Len(last.path) : last.path[i] = <<1, 0>>

\* ---------------------------------------------------------------------
\* The paths build_path returns in SpecPlanner.
\* ---------------------------------------------------------------------

\* C35: every non-empty path build_path returns starts at start, ends at
\* goal, moves between 4-adjacent cells at each step, stays inside the
\* square window of side 2*radius+1 centred on start, and holds no cell
\* after the first for which is_blocked_for_pathing is true
C35_PathWellFormed ==
    (last.op = "build_path" /\ last.path # <<>>) =>
        /\ last.path[1] = last.start
        /\ last.path[Len(last.path)] = last.goal
        /\ \A i \in 1..(Len(last.path) - 1) :
              _manhattan(last.path[i], last.path[i + 1]) = 1
        /\ \A i \in 1..Len(last.path) :
              /\ Abs(last.path[i][1] - last.start[1]) <= last.radius
              /\ Abs(last.path[i][2] - last.start[2]) <= last.radius
        /\ \A i \in 2..Len(last.path) : ~is_blocked_for_pathing(world, last.path[i])

\* a path that goes round a blocked cell: it is longer than the straight
\* way to its goal
C35_Witness ==
    /\ last.op = "build_path"
    /\ Len(last.path) > _manhattan(last.start, last.goal) + 1
    /\ \E c \in PlanInputs.cells : is_blocked_for_pathing(world, c)

\* the cells of build_path's window
WindowCells(start, radius) ==
    {<<start[1] + dx, start[2] + dy>> : dx \in -radius..radius, dy \in -radius..radius}

\* one round of relaxation towards the goal, over the cells known to have
\* a route: a step onto a cell costs that cell's movement_cost, and only
\* cells that are in the window and not blocked for pathing are stepped on
RouteCostRound(d, w, cells) ==
    LET Via(c) == {movement_cost(w, n) + d[n] :
                      n \in {m \in {neighbors4(c)[i] : i \in 1..4} :
                                /\ m \in DOMAIN d
                                /\ ~is_blocked_for_pathing(w, m)}}
        Known(c) == IF c \in DOMAIN d THEN {d[c]} ELSE {}
    IN [c \in {x \in cells : Known(x) \cup Via(x) # {}} |->
           CHOOSE v \in Known(c) \cup Via(c) : \A o \in Known(c) \cup Via(c) : v <= o]

RECURSIVE RouteCostFrom(_, _, _, _)
RouteCostFrom(d, w, cells, rounds) ==
    Then(d, IF rounds = 0 THEN d
            ELSE RouteCostFrom(RouteCostRound(d, w, cells), w, cells, rounds - 1))

\* the least cumulative movement_cost of a route to the goal inside the
\* window, for every cell of the window that has one
MinRouteCost(w, start, goal, radius) ==
    LET cells == WindowCells(start, radius)
    IN RouteCostFrom([c \in cells \cap {goal} |-> 0], w, cells, Cardinality(cells))

\* C36: while build_path searches, for every cell c of its window the
\* Manhattan distance from c to the goal does not exceed the least
\* cumulative movement_cost of an unblocked route from c to the goal inside
\* the window
C36_HeuristicAdmissible ==
    (ghost.phase = "search" /\ ghost.start # ghost.goal) =>
        \A d \in {MinRouteCost(world, ghost.start, ghost.goal, ghost.radius)} :
            \A c \in DOMAIN d : _heuristic(c, ghost.goal) <= d[c]

\* ---------------------------------------------------------------------
\* The cell_states entries a goal scan leaves behind, in SpecSelector.
\* ---------------------------------------------------------------------

\* C37: a read-side operation never creates a cell_states entry.  The goal
\* scan of choose_goal is one: the call leaves cell_states with the entries
\* it had, so no cell loses the unknown-cell penalty of movement_cost
C37_ReadsCreateNoEntry ==
    [][last'.op = "choose_goal" =>
          /\ DOMAIN world'.cell_states = DOMAIN world.cell_states
          /\ \A c \in ScanSquare(SelectorCell, 2) :
                movement_cost(world', c) = movement_cost(world, c)]_vars

\* ======================================================================
\* SpecFoe: one agent whose tank stands still in front of another tank and
\* keeps commanding a forward speed.  On every tick it is asked for a
\* command; it sees an ally ahead, an enemy ahead, or the ally ahead and an
\* enemy far off, and what it sees changes at most MaxSwitches times.
\* ======================================================================

MaxFoeTick == 12
MaxSwitches == 2

FoeStatus == Status(3500, 4400, 0, 100)

\* what seen_tanks holds on a tick
FoeSeen(kind) ==
    CASE kind = "ally"  -> <<Seen.AllyNear>>
      [] kind = "enemy" -> <<Seen.EnemyNear>>
      [] kind = "both"  -> <<Seen.AllyNear, Seen.EnemyFar>>

FoeInit ==
    /\ world = WorldModel
    /\ driver = MotionDriver
    /\ agent = SmartAgent
    /\ last = NoOp
    /\ ghost \in { [tick |-> 0, seen |-> kind, switches |-> 0] :
                      kind \in {"ally", "enemy", "both"} }

\* one get_action call.  The command is a forward speed of 1.0 unless the
\* call has put the driver in unblock mode, which reverses at 0.6 of the
\* top speed of 3.0 (driver.py:149-158)
FoeTick ==
    /\ ghost.tick < MaxFoeTick
    /\ \E kind \in {"ally", "enemy", "both"} :
          /\ kind # ghost.seen => ghost.switches < MaxSwitches
          /\ \E st \in { get_action(world, driver, agent, ghost.tick, FoeStatus,
                                    Sensor(FoeSeen(kind), <<>>, <<>>), 150, {}, 100) } :
                /\ world' = st.w
                /\ driver' = [st.d EXCEPT !.last_move_cmd =
                                 IF st.d.unblock_ticks > 0 THEN -180 ELSE 100]
                /\ agent' = st.a
                /\ last' = [op |-> "get_action",
                            enemies_visible |-> kind # "ally",
                            stuck_before |-> driver.stuck_ticks,
                            stuck_triggered |-> st.stuck_triggered,
                            started_unblock |->
                                st.d.unblock_ticks > driver.unblock_ticks]
          /\ ghost' = [tick |-> ghost.tick + 1, seen |-> kind,
                       switches |-> ghost.switches + (IF kind # ghost.seen THEN 1 ELSE 0)]

FoeNext == FoeTick

SpecFoe == FoeInit /\ [][FoeNext]_vars

C39_FireOnlyAtTargets ==
    last.op = "get_action" =>
        /\ last.should_fire =>
              \/ /\ last.enemy_distance # None
                 /\ last.enemy_distance[1] <= get_firing_range
              \/ \E i \in 1..Len(last.trees) :
                    /\ last.trees[i].is_destructible
                    /\ AxisDist(FirePosition[1], FirePosition[2],
                                last.trees[i].pos[1], last.trees[i].pos[2])
                          <= get_firing_range
                    /\ Abs(normalize_angle_diff(
                               normalize_angle_diff(
                                   heading_to_angle_deg(FirePosition[1], FirePosition[2],
                                                        last.trees[i].pos[1],
                                                        last.trees[i].pos[2]),
                                   last.heading),
                               last.barrel_angle)) <= 4
        /\ (last.enemy_distance = None /\ last.trees = <<>>) => ~last.should_fire

\* the turret would fire at an enemy beyond the firing range, and the
\* command holds the fire
C39_Witness ==
    /\ last.op = "get_action"
    /\ last.enemy_distance # None
    /\ last.enemy_distance[1] > get_firing_range
    /\ last.turret_fire
    /\ ~last.should_fire

\* ======================================================================
\* SpecFsm: the strategic FSM of agent_logic/fsm.py, updated tick after
\* tick with the tank's HP ratio, what the sensor and the heat map show,
\* and the ammunition count.  agent holds the FSM's two fields.
\* ======================================================================

\* FSM.__init__; ratios are in percent
min_state_duration == 20
hp_retreat_threshold == 25
hp_safe_threshold == 35
ammo_low_threshold == 3

FSM == [current_state |-> "EXPLORE", state_timer |-> 0]

\* the longest a state's timer is followed
MaxStateTimer == 22

\* what an update may be given: closest_enemy_dist is None when no tank is
\* seen or the seen tank carries no distance
FsmInputs ==
    [ hp_ratios  |-> {20, 25, 30, 35, 36, 55, 70, 100},
      distances  |-> {None, Some(10), Some(20)},
      total_ammo |-> {2, 10} ]

\* FSM._change_state
_change_state(fsm, new_state) ==
    [current_state |-> new_state, state_timer |-> 0]

\* FSM.update after the timer test (fsm.py:47-80)
Transition(fsm, hp_ratio, visible_enemies, closest_enemy_dist, hottest_enemy, total_ammo, closest_powerup) ==
    IF hp_ratio < hp_retreat_threshold
    THEN IF fsm.current_state # "RETREAT" THEN _change_state(fsm, "RETREAT") ELSE fsm
    ELSE IF fsm.current_state = "RETREAT" /\ hp_ratio > hp_safe_threshold
    THEN _change_state(fsm, "EXPLORE")
    ELSE IF visible_enemies > 0 /\ hp_ratio > 50
    THEN IF /\ closest_enemy_dist # None /\ closest_enemy_dist[1] # 0
            /\ closest_enemy_dist[1] < 15
            /\ fsm.current_state # "AMBUSH"
         THEN _change_state(fsm, "AMBUSH") ELSE fsm
    ELSE IF visible_enemies > 0 \/ hottest_enemy
    THEN IF fsm.current_state \notin {"HUNT", "AMBUSH"}
         THEN _change_state(fsm, "HUNT") ELSE fsm
    ELSE IF (total_ammo < ammo_low_threshold \/ hp_ratio < 60) /\ closest_powerup
    THEN IF fsm.current_state # "COLLECT_POWERUP"
         THEN _change_state(fsm, "COLLECT_POWERUP") ELSE fsm
    ELSE IF fsm.current_state \notin {"EXPLORE", "HUNT"}
         THEN _change_state(fsm, "EXPLORE") ELSE fsm

\* FSM.update: the FSM after the call
update(fsm, hp_ratio, visible_enemies, closest_enemy_dist, hottest_enemy, total_ammo, closest_powerup) ==
    LET ticked == [fsm EXCEPT !.state_timer = @ + 1]
    IN IF ticked.state_timer < min_state_duration THEN ticked
       ELSE Transition(ticked, hp_ratio, visible_enemies, closest_enemy_dist,
                       hottest_enemy, total_ammo, closest_powerup)

FsmInit ==
    /\ world = WorldModel
    /\ driver = MotionDriver
    /\ agent = FSM
    /\ last = NoOp
    /\ ghost = EmptyMap

\* one FSM.update call
FsmUpdate ==
    /\ agent.state_timer < MaxStateTimer
    /\ \E hp_ratio \in FsmInputs.hp_ratios, visible_enemies \in 0..1,
          closest_enemy_dist \in FsmInputs.distances, hottest_enemy \in BOOLEAN,
          total_ammo \in FsmInputs.total_ammo, closest_powerup \in BOOLEAN :
          /\ visible_enemies = 0 => closest_enemy_dist = None
          /\ agent' = update(agent, hp_ratio, visible_enemies, closest_enemy_dist,
                             hottest_enemy, total_ammo, closest_powerup)
          /\ last' = [op |-> "update", before |-> agent.current_state,
                      hp_ratio |-> hp_ratio, visible_enemies |-> visible_enemies,
                      closest_powerup |-> closest_powerup]
    /\ UNCHANGED <<world, driver, ghost>>

FsmNext == FsmUpdate

SpecFsm == FsmInit /\ [][FsmNext]_vars

\* C40: an update that finds the FSM in RETREAT with an HP ratio of at most
\* the safe threshold 0.35 leaves it in RETREAT, whatever enemies or
\* power-ups are visible
C40_RetreatHolds ==
    (last.op = "update" /\ last.before = "RETREAT" /\ last.hp_ratio <= hp_safe_threshold)
        => agent.current_state = "RETREAT"

====
